---------------------------- MODULE Spec2Model ----------------------------
(***************************************************************************)
(* DynamoDB design-pattern benchmark: the data access objects (BaseDAO,    *)
(* RelationalDAO, SingleTableDAO), the data generators and the test        *)
(* services, modelled as state machines over an abstract item store.       *)
(*                                                                         *)
(* The module holds several specifications that share one set of           *)
(* variables; each specification moves the variables of its own group and  *)
(* leaves the other groups at their initial value.                         *)
(*                                                                         *)
(*   SpecBatch   BaseDAO.batchWriteWithChunking + measureOperation         *)
(***************************************************************************)
EXTENDS Integers, Sequences, FiniteSets, TLC

(***************************************************************************)
(* Bounds of the model.                                                    *)
(***************************************************************************)
\* largest input list handed to a batch insert
MaxItems == 27
\* largest number of items the store reports unprocessed for one request
MaxUnprocessed == 2
\* the number of items the store reads for one response page (its 1 MB page)
PageLimit == 3
\* largest number of items in a table whose content is arbitrary
MaxTableItems == 4
\* the largest userCount runAllTests is called with
MaxUsers == 5
\* the most requests one DAO operation sends
MaxRequests == 3
\* the most attempts per request a client constructed without maxAttempts makes
MaxDefaultAttempts == 3
\* the most posts, or orders, a generator is asked for
MaxGenerated == 3
\* the shards of the parallel date-range query (20 in the source)
MaxShards == 4
\* the most orders of one shard that a date range holds
MaxShardItems == 2
\* the most posts the posts query of the screen data answers with
MaxScreenPosts == 2
\* the most calls made one after the other on one table
MaxHistory == 3
\* the most users generateRelationalFollowers draws from
MaxFollowUsers == 4
\* the largest postCount of a run that is repeated
MaxRerunPosts == 4

(***************************************************************************)
(* Program constants.                                                      *)
(***************************************************************************)
\* const BATCH_SIZE = 25
BATCH_SIZE == 25

Min(a, b) == IF a < b THEN a ELSE b

(***************************************************************************)
(* BaseDAO.measureOperation (dynamo-queries base DAO).                     *)
(*                                                                         *)
(* An operation's outcome is a record                                      *)
(*   threw     the operation rejected (client.send threw, nothing caught)  *)
(*   hasItems  the result has an array under the key Items                 *)
(*   Items     that array, a sequence of items                             *)
(*   Item      <<item>> when the result has a truthy Item, <<>> otherwise  *)
(*   hasCount  the result has the key Count                                *)
(*   Count     the number under it                                         *)
(*   hasCap    the result has a truthy ConsumedCapacity                    *)
(*   cap       ConsumedCapacity.CapacityUnits                              *)
(***************************************************************************)
\* let actualItemCount = itemCount; if ('Items' in result ...) ... else if
\* ('Item' in result && result.Item) ... else if ('Count' in result) ...
ActualItemCount(result, itemCount) ==
    IF result.hasItems THEN Len(result.Items)
    ELSE IF result.Item # <<>> THEN 1
    ELSE IF result.hasCount THEN result.Count
    ELSE itemCount

\* consumedCapacity.readCapacityUnits of a TestResult that has none
NoCapacity == -1

\* a faulty variant of MeasureOperation that lets the operation's rejection escape
\* as a result that still counts the requested items
MeasureOperationNoCatch(result, itemCount) ==
    [success |-> ~result.threw,
     itemCount |-> ActualItemCount(result, itemCount),
     error |-> IF result.threw THEN "error" ELSE "none",
     readCapacityUnits |-> IF result.hasCap THEN result.cap ELSE NoCapacity]

\* the TestResult measureOperation returns (duration left out: wall-clock time)
MeasureOperation(result, itemCount) ==
    IF result.threw
    THEN [success |-> FALSE, itemCount |-> 0, error |-> "error",
          readCapacityUnits |-> NoCapacity]
    ELSE [success |-> TRUE, itemCount |-> ActualItemCount(result, itemCount),
          error |-> "none",
          readCapacityUnits |-> IF result.hasCap THEN result.cap ELSE NoCapacity]

\* no TestResult yet
NoResult == [success |-> FALSE, itemCount |-> 0, error |-> "unset",
             readCapacityUnits |-> NoCapacity]

(***************************************************************************)
(* Group Batch: BaseDAO.batchWriteWithChunking.                            *)
(*   bPc          "idle" | "loop" | "done"                                 *)
(*   bN           items.length (the items are 1..bN)                       *)
(*   bI           the loop index i                                         *)
(*   bFailed      failedCount                                              *)
(*   bSuccessful  successfulCount                                          *)
(*   bRequests    the BatchWriteCommands sent: <<first, last>> item index  *)
(*   bUnprocessed ghost: the number of items the store reported            *)
(*                unprocessed, over all requests                           *)
(*   bThrown      ghost: a request threw                                   *)
(*   bResult      the TestResult returned                                  *)
(***************************************************************************)
VARIABLES bPc, bN, bI, bFailed, bSuccessful, bRequests, bUnprocessed, bThrown,
          bResult

batchVars == <<bPc, bN, bI, bFailed, bSuccessful, bRequests, bUnprocessed,
               bThrown, bResult>>

BatchIdle ==
    /\ bPc = "idle"
    /\ bN = 0
    /\ bI = 0
    /\ bFailed = 0
    /\ bSuccessful = 0
    /\ bRequests = <<>>
    /\ bUnprocessed = 0
    /\ bThrown = FALSE
    /\ bResult = NoResult

\* batchWriteWithChunking(items, ...) is called with a list of n items
BatchStart ==
    /\ bPc = "idle"
    /\ \E n \in 0..MaxItems :
         /\ bN' = n
         /\ bPc' = "loop"
    /\ bI' = 0
    /\ UNCHANGED <<bFailed, bSuccessful, bRequests, bUnprocessed, bThrown, bResult>>

\* a faulty variant of BatchLength that takes every batch for a full one
BatchLengthFull(n, i) == BATCH_SIZE

\* items.slice(i, i + BATCH_SIZE).length
BatchLength(n, i) == Min(n, i + BATCH_SIZE) - i

\* what one answered request adds to successfulCount: the whole batch when
\* UnprocessedItems is empty, nothing otherwise
CountedSuccessful(len, unprocessed) == IF unprocessed > 0 THEN 0 ELSE len

\* what one answered request adds to failedCount
CountedFailed(len, unprocessed) == IF unprocessed > 0 THEN len ELSE 0

\* one iteration of the for loop whose request the store answers, reporting
\* u of the batch's items unprocessed
BatchSendAnswered ==
    /\ bPc = "loop"
    /\ bI < bN
    /\ LET len == BatchLength(bN, bI) IN
       \E u \in 0..Min(len, MaxUnprocessed) :
         /\ bRequests' = Append(bRequests, <<bI + 1, bI + len>>)
         /\ bFailed' = bFailed + CountedFailed(len, u)
         /\ bSuccessful' = bSuccessful + CountedSuccessful(len, u)
         /\ bUnprocessed' = bUnprocessed + u
    /\ bI' = bI + BATCH_SIZE
    /\ UNCHANGED <<bPc, bN, bThrown, bResult>>

\* one iteration of the for loop whose request throws: caught in the loop
BatchSendThrows ==
    /\ bPc = "loop"
    /\ bI < bN
    /\ LET len == BatchLength(bN, bI) IN
         /\ bRequests' = Append(bRequests, <<bI + 1, bI + len>>)
         /\ bFailed' = bFailed + len
    /\ bThrown' = TRUE
    /\ bI' = bI + BATCH_SIZE
    /\ UNCHANGED <<bPc, bN, bSuccessful, bUnprocessed, bResult>>

\* the summary the operation returns: { Items: items, Count: successfulCount,
\* ConsumedCapacity, FailedCount }
BatchSummary ==
    [threw |-> FALSE, hasItems |-> TRUE, Items |-> [k \in 1..bN |-> k],
     Item |-> <<>>, hasCount |-> TRUE, Count |-> bSuccessful, hasCap |-> TRUE,
     cap |-> 0, FailedCount |-> bFailed]

\* the loop is over: the summary goes through measureOperation
BatchFinish ==
    /\ bPc = "loop"
    /\ bI >= bN
    /\ bResult' = MeasureOperation(BatchSummary, bN)
    /\ bPc' = "done"
    /\ UNCHANGED <<bN, bI, bFailed, bSuccessful, bRequests, bUnprocessed, bThrown>>

\* the caller takes the result; the DAO is ready for the next call
BatchReset ==
    /\ bPc = "done"
    /\ bPc' = "idle"
    /\ bN' = 0
    /\ bI' = 0
    /\ bFailed' = 0
    /\ bSuccessful' = 0
    /\ bRequests' = <<>>
    /\ bUnprocessed' = 0
    /\ bThrown' = FALSE
    /\ bResult' = NoResult

(***************************************************************************)
(* Strings.  A string is a sequence of tokens: a key such as               *)
(* `USER#${userId}` is <<"USER", "#", userId>>.  begins_with and the order *)
(* of sort keys are taken token by token.                                  *)
(***************************************************************************)
\* the tokens, in the order of their first characters ('#' < digits <
\* upper case < lower case); a timestamp is a token "t1" < "t2" < ...
TokenOrder ==
    <<"#", "t1", "t2", "t3", "COMMENT", "FOLLOWER", "LIKE", "ORDER",
      "ORDER_ITEM", "POST", "POSTS", "USER", "USER_ORDER_ITEMS",
      "comment-00000001", "comment-00000002",
      "item-00000001", "item-00000002",
      "order-00000001", "order-00000002", "order-00000003", "order-00000004",
      "post-00000001", "post-00000002", "post-00000003", "post-00000004",
      "post-00000005",
      "user-00001", "user-00002", "user-00003", "user-00004", "user-00005",
      "user-00006", "user-00007">>

RankOf(t) == CHOOSE i \in DOMAIN TokenOrder : TokenOrder[i] = t

\* begins_with(s, p) of a key condition or filter expression
BeginsWith(s, p) == Len(p) <= Len(s) /\ SubSeq(s, 1, Len(p)) = p

\* s < t, as the store orders the values of a string attribute
RECURSIVE StrLess(_, _)
StrLess(s, t) ==
    IF t = <<>> THEN FALSE
    ELSE IF s = <<>> THEN TRUE
    ELSE IF Head(s) = Head(t) THEN StrLess(Tail(s), Tail(t))
    ELSE RankOf(Head(s)) < RankOf(Head(t))

(***************************************************************************)
(* Items.  Every item is a record with the attributes the DAOs read; an    *)
(* attribute an item does not carry is the empty string <<>>.              *)
(*   PK, SK      the keys of a single-table item                           *)
(*   entityType  the discriminator of a single-table item                  *)
(*   id          postId / orderId / commentId / the user's id              *)
(*   userId      the owner: the author of a post or comment, the customer  *)
(*   postId      the post a comment is on                                  *)
(*   GSI1PK      the overloaded index key                                  *)
(***************************************************************************)
UserIds == {"user-00001", "user-00002"}
PostIds == {"post-00000001", "post-00000002", "post-00000003", "post-00000004"}
OrderIds == {"order-00000001", "order-00000002", "order-00000003",
             "order-00000004"}
CommentIds == {"comment-00000001"}
Stamps == {"t1", "t2"}

Item(pk, sk, type, id, user, post, gsi1pk) ==
    [PK |-> pk, SK |-> sk, entityType |-> type, id |-> <<id>>, userId |-> user,
     postId |-> post, GSI1PK |-> gsi1pk]

\* DataGenerator.generateSingleTableOrders (dynamo-tests), one order
SingleTableOrderItem(order) ==
    Item(<<"USER", "#", order.userId>>,
         <<"ORDER", "#", order.orderId, "#", order.orderDate>>,
         "ORDER", order.orderId, <<order.userId>>, <<>>, <<>>)

\* DataGenerator.generateSingleTableUsers (dynamo-tests), one user
SingleTableOrderUser(userId) ==
    Item(<<"USER", "#", userId>>, <<"USER", "#", userId>>, "USER", userId,
         <<userId>>, <<>>, <<>>)

\* DataGenerator.generateSingleTableUsers (dynamo-queries), one user
SingleTableUser(userId) ==
    Item(<<"USER", "#", userId>>, <<"USER", "#", userId>>, "USER", userId,
         <<>>, <<>>, <<>>)

\* DataGenerator.generateSingleTablePosts (dynamo-queries), one post
SingleTablePost(post) ==
    Item(<<"USER", "#", post.userId>>, <<"POST", "#", post.createdAt>>, "POST",
         post.id, <<post.userId>>, <<>>, <<"POST">>)

\* DataGenerator.generateSingleTableComments (dynamo-queries), one comment
SingleTableComment(comment) ==
    Item(<<"USER", "#", comment.userId>>, <<"COMMENT", "#", comment.createdAt>>,
         "COMMENT", comment.id, <<comment.userId>>, <<comment.postId>>,
         <<"COMMENT">>)

\* a SingleTableOrderItem (orders project): PK USER#<userId>, SK
\* ORDER_ITEM#<date>, stored on GSI1 under the key gsi1pk
SingleTableOrderItemItem(userId, stamp, id, gsi1pk) ==
    Item(<<"USER", "#", userId>>, <<"ORDER_ITEM", "#", stamp>>, "ORDER_ITEM",
         id, <<userId>>, <<>>, gsi1pk)

\* a RelationalPost: postId is the key, userId a plain attribute
RelationalPost(postId, userId) ==
    Item(<<>>, <<>>, "", postId, <<userId>>, <<postId>>, <<>>)

\* a RelationalUser as the users table keys it (PK = userId)
RelationalUser(userId) ==
    Item(<<userId>>, <<>>, "", userId, <<userId>>, <<>>, <<>>)

\* a RelationalComment: key (postId, commentId), userId the author
RelationalComment(postId, commentId, userId) ==
    Item(<<>>, <<>>, "", commentId, <<userId>>, <<postId>>, <<>>)

\* a RelationalOrder: orderId is the key, userId a plain attribute
RelationalOrder(orderId, userId) ==
    Item(<<>>, <<>>, "", orderId, <<userId>>, <<>>, <<>>)

\* a total order on items: by PK, then SK, then postId, then id
ItemLess(a, b) ==
    LET ka == a.PK \o <<"#">> \o a.SK \o <<"#">> \o a.postId \o <<"#">> \o a.id
        kb == b.PK \o <<"#">> \o b.SK \o <<"#">> \o b.postId \o <<"#">> \o b.id
    IN  StrLess(ka, kb)

\* the items of a set as a sequence, in key order
RECURSIVE SeqOf(_)
SeqOf(S) ==
    IF S = {} THEN <<>>
    ELSE LET m == CHOOSE x \in S : \A y \in S \ {x} : ItemLess(x, y)
         IN  <<m>> \o SeqOf(S \ {m})

\* the elements of a sequence
Range(q) == {q[k] : k \in DOMAIN q}

(***************************************************************************)
(* The store.  A table is a set of items with pairwise different keys.  A  *)
(* Query or Scan reads one page: at most PageLimit items that satisfy the  *)
(* key condition (all items, for a Scan), then drops those the filter      *)
(* expression rejects.  A Query of the base table reads in sort-key order; *)
(* the order of a Scan and of an index is the store's own, so their page   *)
(* is any set of PageLimit such items.  The DAOs never follow              *)
(* LastEvaluatedKey.  Capacity is counted in items read.                   *)
(***************************************************************************)
\* a faulty variant of PageOutput that reports the items returned as those read
PageOutputReturned(page, kept) ==
    [threw |-> FALSE, hasItems |-> TRUE, Items |-> SeqOf(kept), Item |-> <<>>,
     hasCount |-> TRUE, Count |-> Cardinality(kept), hasCap |-> TRUE,
     cap |-> Cardinality(kept), ScannedCount |-> Cardinality(kept)]

\* the output of a Query or Scan that read the items of page and returned
\* those of kept
PageOutput(page, kept) ==
    [threw |-> FALSE, hasItems |-> TRUE, Items |-> SeqOf(kept), Item |-> <<>>,
     hasCount |-> TRUE, Count |-> Cardinality(kept), hasCap |-> TRUE,
     cap |-> Cardinality(page), ScannedCount |-> Cardinality(page)]

\* a rejected request
Threw == [threw |-> TRUE, hasItems |-> FALSE, Items |-> <<>>, Item |-> <<>>,
          hasCount |-> FALSE, Count |-> 0, hasCap |-> FALSE, cap |-> 0,
          ScannedCount |-> 0]

\* the first n elements of a sequence
Take(q, n) == SubSeq(q, 1, Min(n, Len(q)))

\* the pages the store may read out of the items matching
Pages(matching) ==
    {P \in SUBSET matching :
        Cardinality(P) = Min(PageLimit, Cardinality(matching))}

\* the page of a base-table Query: the first items in sort-key order
FirstPage(matching) == Range(Take(SeqOf(matching), PageLimit))

\* GetCommand: the item among found, the items of the table with the key
GetOutput(found) ==
    [threw |-> FALSE, hasItems |-> FALSE, Items |-> <<>>,
     Item |-> IF found = {} THEN <<>> ELSE <<CHOOSE i \in found : TRUE>>,
     hasCount |-> FALSE, Count |-> 0, hasCap |-> TRUE, cap |-> 1,
     ScannedCount |-> 0]

\* QueryCommand on the base table; matching are the items of the table that
\* satisfy the key condition
QueryOutput(matching) == PageOutput(FirstPage(matching), FirstPage(matching))

\* QueryCommand on an index
IndexQueryOutputs(matching) ==
    {PageOutput(page, page) : page \in Pages(matching)}

\* ScanCommand with a FilterExpression; accepted are the items of the table
\* the filter accepts (all of them without a filter)
ScanOutputs(table, accepted) ==
    {PageOutput(page, page \cap accepted) : page \in Pages(table)}

(***************************************************************************)
(* BaseDAO.measureOperation of the performance test suite (dynamo-tests):  *)
(* itemCount is the requested count, recordCount the counted one.  Its     *)
(* consumedCapacity copies ReadCapacityUnits, a field the outputs here do  *)
(* not carry, and is left out.                                             *)
(***************************************************************************)
\* let recordCount = 1; if ('Items' in result ...) ... else if ('Count' in
\* result ...) ... else if ('Item' in result && result.Item) ...
RecordCount(result, itemCount) ==
    IF result.hasItems THEN Len(result.Items)
    ELSE IF result.hasCount THEN result.Count
    ELSE IF result.Item # <<>> THEN 1
    ELSE IF result.hasCap THEN itemCount
    ELSE 1

PerfMeasureOperation(result, itemCount) ==
    IF result.threw
    THEN [success |-> FALSE, itemCount |-> itemCount, recordCount |-> 0,
          error |-> "error"]
    ELSE [success |-> TRUE, itemCount |-> itemCount,
          recordCount |-> RecordCount(result, itemCount), error |-> "none"]

(***************************************************************************)
(* Group Read: the read operations of the DAOs against stored tables.      *)
(*   project  which test project's DAOs are constructed                    *)
(*            "social"  dynamo-queries: users, posts, comments             *)
(*            "orders"  the order-domain DAOs: users, orders, order items  *)
(*   db       the content of every table                                   *)
(*   relCall  the last call of a RelationalDAO read: the operation, its    *)
(*            argument, the store's answer (ghost) and the TestResult      *)
(*   stCall   the same for the SingleTableDAO                              *)
(***************************************************************************)
VARIABLES project, db, relCall, stCall

readVars == <<project, db, relCall, stCall>>

TableNames == {"users-relational", "posts-relational", "comments-relational",
               "orders-relational", "single-table-social",
               "single-table-orders", "single-table-order-items"}

NoCall == [op |-> "none", arg |-> "", out |-> Threw, result |-> NoResult]

Called(op, arg, out, result) ==
    [op |-> op, arg |-> arg, out |-> out, result |-> result]

EmptyDb == [t \in TableNames |-> {}]

ReadIdle ==
    /\ project = "none"
    /\ db = EmptyDb
    /\ relCall = NoCall
    /\ stCall = NoCall

\* the key of an item of table t
KeyOf(t, i) ==
    CASE t \in {"single-table-social", "single-table-orders",
                "single-table-order-items"} -> <<i.PK, i.SK>>
      [] t = "users-relational" -> <<i.PK>>
      [] t = "comments-relational" -> <<i.postId, i.id>>
      [] OTHER -> <<i.id>>

\* the contents a table t can have, drawn from the items of universe
Contents(t, universe) ==
    {S \in SUBSET universe :
        /\ Cardinality(S) <= MaxTableItems
        /\ \A x, y \in S : x # y => KeyOf(t, x) # KeyOf(t, y)}

\* the posts the generator writes to the single table: one per user and stamp
SocialPosts ==
    {[id |-> "post-00000001", userId |-> "user-00001", createdAt |-> "t1"],
     [id |-> "post-00000002", userId |-> "user-00001", createdAt |-> "t2"],
     [id |-> "post-00000003", userId |-> "user-00002", createdAt |-> "t1"],
     [id |-> "post-00000004", userId |-> "user-00002", createdAt |-> "t2"]}

SocialComments ==
    {[id |-> "comment-00000001", userId |-> u, postId |-> "post-00000001",
      createdAt |-> ts] : u \in UserIds, ts \in Stamps}

SocialUniverse ==
    {SingleTableUser(u) : u \in UserIds}
    \cup {SingleTablePost(p) : p \in SocialPosts}
    \cup {SingleTableComment(c) : c \in SocialComments}

OrdersUniverse ==
    {SingleTableOrderUser(u) : u \in UserIds}
    \cup {SingleTableOrderItem([orderId |-> o, userId |-> u, orderDate |-> "t1"]) :
            o \in OrderIds, u \in UserIds}

OrderItemsUniverse ==
    UNION {{SingleTableOrderItemItem(u, ts, "item-00000001", g) :
               ts \in Stamps,
               g \in {<<"ORDER_ITEM">>, <<"USER_ORDER_ITEMS", "#", u>>}} :
           u \in UserIds}

RelationalPostsUniverse == {RelationalPost(p, u) : p \in PostIds, u \in UserIds}

RelationalCommentsUniverse ==
    {RelationalComment(p, c, u) :
        p \in {"post-00000001", "post-00000002"}, c \in CommentIds, u \in UserIds}

RelationalOrdersUniverse ==
    {RelationalOrder(o, u) : o \in OrderIds, u \in UserIds}

\* the single table loaded with the users and the orders of a relational
\* orders table: the same data in both designs
SameOrders(orders) ==
    {SingleTableOrderUser(u) : u \in UserIds}
    \cup {SingleTableOrderItem([orderId |-> o.id[1], userId |-> o.userId[1],
                                orderDate |-> "t1"]) : o \in orders}

\* the tables hold any content: one scenario per group of tables that an
\* operation reads together
ReadInit ==
    /\ relCall = NoCall
    /\ stCall = NoCall
    /\ \/ /\ project = "social"
          /\ \E S \in Contents("single-table-social", SocialUniverse) :
               db = [EmptyDb EXCEPT !["single-table-social"] = S]
       \/ /\ project = "social"
          /\ \E S \in SUBSET {RelationalUser(u) : u \in UserIds} :
               db = [EmptyDb EXCEPT !["users-relational"] = S]
       \/ /\ project = "social"
          /\ \E P \in Contents("posts-relational", RelationalPostsUniverse),
                C \in Contents("comments-relational", RelationalCommentsUniverse) :
               db = [EmptyDb EXCEPT !["posts-relational"] = P,
                                    !["comments-relational"] = C]
       \/ /\ project = "orders"
          /\ \E S \in Contents("single-table-orders", OrdersUniverse) :
               db = [EmptyDb EXCEPT !["single-table-orders"] = S]
       \/ /\ project = "orders"
          /\ \E R \in Contents("orders-relational", RelationalOrdersUniverse) :
               db = [EmptyDb EXCEPT !["orders-relational"] = R,
                                    !["single-table-orders"] = SameOrders(R)]
       \/ /\ project = "orders"
          /\ \E S \in Contents("single-table-order-items", OrderItemsUniverse) :
               db = [EmptyDb EXCEPT !["single-table-order-items"] = S]

\* `USER#${userId}`
UserKey(userId) == <<"USER", "#", userId>>

(***************************************************************************)
(* SingleTableDAO of dynamo-queries (social data).                         *)
(***************************************************************************)
\* getUserPosts: 'PK = :pk AND begins_with(SK, :skPrefix)' with
\* :pk = `USER#${userId}`, :skPrefix = 'POST#'
GetUserPostsKey(i, userId) ==
    i.PK = UserKey(userId) /\ BeginsWith(i.SK, <<"POST", "#">>)

StGetUserPostsOutputs(userId) ==
    {QueryOutput({i \in db["single-table-social"] : GetUserPostsKey(i, userId)})}

\* a faulty variant of GetUserByIdKey that matches the partition key alone
GetUserByIdKeyAnySK(i, userId) == i.PK = UserKey(userId)

\* getUserById: Key { PK: `USER#${userId}`, SK: `USER#${userId}` }
GetUserByIdKey(i, userId) == i.PK = UserKey(userId) /\ i.SK = UserKey(userId)

\* a faulty variant of StGetUserByIdOutputs whose answer does not depend on
\* the key: any item of the table, or none
StGetUserByIdOutputsAnyKey(userId) ==
    {GetOutput({i}) : i \in db["single-table-social"]} \cup {GetOutput({})}

StGetUserByIdOutputs(userId) ==
    {GetOutput({i \in db["single-table-social"] : GetUserByIdKey(i, userId)})}

\* a faulty variant of GetAllPostsKey that reads the comments' entity type
GetAllPostsKeyComments(i) == i.entityType = "COMMENT"

\* getAllPosts: IndexName 'EntityTypeIndex', 'entityType = :entityType' with
\* :entityType = EntityType.POST
GetAllPostsKey(i) == i.entityType = "POST"

StGetAllPostsOutputs ==
    IndexQueryOutputs({i \in db["single-table-social"] : GetAllPostsKey(i)})

(***************************************************************************)
(* RelationalDAO of dynamo-queries (social data).                          *)
(***************************************************************************)
\* a faulty variant of UserIdFilter that accepts every item
UserIdFilterNone(i, userId) == TRUE

\* FilterExpression / KeyConditionExpression 'userId = :userId'
UserIdFilter(i, userId) == i.userId = <<userId>>

\* getUserPosts: a Scan of the posts table with the filter userId = :userId
RelGetUserPostsOutputs(userId) ==
    ScanOutputs(db["posts-relational"],
                {i \in db["posts-relational"] : UserIdFilter(i, userId)})

\* getUserById: Key { PK: userId }
RelGetUserByIdOutputs(userId) ==
    {GetOutput({i \in db["users-relational"] : i.PK = <<userId>>})}

\* getAllPosts: a Scan of the posts table, no filter
RelGetAllPostsOutputs ==
    ScanOutputs(db["posts-relational"], db["posts-relational"])

\* 'postId = :postId' with :postId = post.postId
CommentsOfPost(post) ==
    QueryOutput({c \in db["comments-relational"] : c.postId = post.postId})

\* for (const post of posts.Items) { ... allComments.push(...postComments.Items) }
RECURSIVE AllComments(_)
AllComments(posts) ==
    IF posts = <<>> THEN <<>>
    ELSE CommentsOfPost(Head(posts)).Items \o AllComments(Tail(posts))

RECURSIVE CommentsCapacity(_)
CommentsCapacity(posts) ==
    IF posts = <<>> THEN 0
    ELSE CommentsOfPost(Head(posts)).cap + CommentsCapacity(Tail(posts))

\* getAllUserComments: the posts of the user through PostsByDateIndex, then
\* one comments query per post; { Items: allComments, Count, ConsumedCapacity }
RelGetAllUserCommentsOutputs(userId) ==
    {[threw |-> FALSE, hasItems |-> TRUE, Items |-> AllComments(posts.Items),
      Item |-> <<>>, hasCount |-> TRUE, Count |-> Len(AllComments(posts.Items)),
      hasCap |-> TRUE, cap |-> posts.cap + CommentsCapacity(posts.Items),
      ScannedCount |-> 0] :
        posts \in IndexQueryOutputs({i \in db["posts-relational"] :
                                        UserIdFilter(i, userId)})}

(***************************************************************************)
(* The DAOs of the order domain.                                           *)
(***************************************************************************)
\* a faulty variant of GetUserOrdersKey that matches every sort key of the partition
GetUserOrdersKeyNoPrefix(i, userId) == i.PK = UserKey(userId)

\* SingleTableDAO.getUserOrders (dynamo-tests): 'PK = :pk AND
\* begins_with(SK, :sk)' with :pk = `USER#${userId}`, :sk = 'ORDER#'
GetUserOrdersKey(i, userId) ==
    i.PK = UserKey(userId) /\ BeginsWith(i.SK, <<"ORDER", "#">>)

StGetUserOrdersOutputs(userId) ==
    {QueryOutput({i \in db["single-table-orders"] : GetUserOrdersKey(i, userId)})}

\* RelationalDAO.getUserOrders (orders project): a Scan of the orders table
\* with the filter userId = :userId
RelGetUserOrdersOutputs(userId) ==
    ScanOutputs(db["orders-relational"],
                {i \in db["orders-relational"] : UserIdFilter(i, userId)})

\* SingleTableDAO.getAllUserOrderItems (orders project): IndexName 'GSI1',
\* 'GSI1PK = :gsi1pk' with :gsi1pk = EntityType.ORDER_ITEM; userId is not used
GetAllUserOrderItemsKey(i, userId) == i.GSI1PK = <<"ORDER_ITEM">>

StGetAllUserOrderItemsOutputs(userId) ==
    IndexQueryOutputs({i \in db["single-table-order-items"] :
                          GetAllUserOrderItemsKey(i, userId)})

\* SingleTableDAO.getAllUserComments (dynamo-queries): the key condition on
\* GSI1, GSI1PK = `USER_COMMENTS#${userId}`
GetAllUserCommentsKey(i, userId) == i.GSI1PK = <<"USER_COMMENTS", "#", userId>>

StGetAllUserCommentsOutputs(userId) ==
    IndexQueryOutputs({i \in db["single-table-social"] :
                          GetAllUserCommentsKey(i, userId)})

\* SingleTableDAO.getAllOrders (dynamo-tests): the key condition on the
\* base table, ':pk': 'USER#user-00001', ':sk': 'ORDER#'
GetAllOrdersKey(i) ==
    i.PK = <<"USER", "#", "user-00001">> /\ BeginsWith(i.SK, <<"ORDER", "#">>)

StGetAllOrdersOutputs ==
    {QueryOutput({i \in db["single-table-orders"] : GetAllOrdersKey(i)})}

(***************************************************************************)
(* The calls.  Every request may be rejected by the store (throttling,     *)
(* validation, connectivity): the operation then throws into               *)
(* measureOperation.                                                       *)
(***************************************************************************)
StGetUserPosts ==
    /\ project = "social"
    /\ stCall = NoCall
    /\ \E userId \in UserIds : \E out \in StGetUserPostsOutputs(userId) \cup {Threw} :
         stCall' = Called("getUserPosts", userId, out, MeasureOperation(out, 1))
    /\ UNCHANGED <<project, db, relCall>>

StGetUserById ==
    /\ project = "social"
    /\ stCall = NoCall
    /\ \E userId \in UserIds : \E out \in StGetUserByIdOutputs(userId) \cup {Threw} :
         stCall' = Called("getUserById", userId, out, MeasureOperation(out, 1))
    /\ UNCHANGED <<project, db, relCall>>

StGetAllPosts ==
    /\ project = "social"
    /\ stCall = NoCall
    /\ \E out \in StGetAllPostsOutputs \cup {Threw} :
         stCall' = Called("getAllPosts", "", out, MeasureOperation(out, 1))
    /\ UNCHANGED <<project, db, relCall>>

RelGetUserPosts ==
    /\ project = "social"
    /\ relCall = NoCall
    /\ \E userId \in UserIds : \E out \in RelGetUserPostsOutputs(userId) \cup {Threw} :
         relCall' = Called("getUserPosts", userId, out, MeasureOperation(out, 1))
    /\ UNCHANGED <<project, db, stCall>>

RelGetUserById ==
    /\ project = "social"
    /\ relCall = NoCall
    /\ \E userId \in UserIds : \E out \in RelGetUserByIdOutputs(userId) \cup {Threw} :
         relCall' = Called("getUserById", userId, out, MeasureOperation(out, 1))
    /\ UNCHANGED <<project, db, stCall>>

RelGetAllPosts ==
    /\ project = "social"
    /\ relCall = NoCall
    /\ \E out \in RelGetAllPostsOutputs \cup {Threw} :
         relCall' = Called("getAllPosts", "", out, MeasureOperation(out, 1))
    /\ UNCHANGED <<project, db, stCall>>

RelGetAllUserComments ==
    /\ project = "social"
    /\ relCall = NoCall
    /\ \E userId \in UserIds : \E out \in RelGetAllUserCommentsOutputs(userId) \cup {Threw} :
         relCall' = Called("getAllUserComments", userId, out,
                           MeasureOperation(out, 1))
    /\ UNCHANGED <<project, db, stCall>>

StGetAllUserComments ==
    /\ project = "social"
    /\ stCall = NoCall
    /\ \E userId \in UserIds : \E out \in StGetAllUserCommentsOutputs(userId) \cup {Threw} :
         stCall' = Called("getAllUserComments", userId, out,
                          MeasureOperation(out, 1))
    /\ UNCHANGED <<project, db, relCall>>

StGetUserOrders ==
    /\ project = "orders"
    /\ stCall = NoCall
    /\ \E userId \in UserIds : \E out \in StGetUserOrdersOutputs(userId) \cup {Threw} :
         stCall' = Called("getUserOrders", userId, out,
                          PerfMeasureOperation(out, 1))
    /\ UNCHANGED <<project, db, relCall>>

StGetAllOrders ==
    /\ project = "orders"
    /\ stCall = NoCall
    /\ \E out \in StGetAllOrdersOutputs \cup {Threw} :
         stCall' = Called("getAllOrders", "", out, PerfMeasureOperation(out, 1))
    /\ UNCHANGED <<project, db, relCall>>

StGetAllUserOrderItems ==
    /\ project = "orders"
    /\ stCall = NoCall
    /\ \E userId \in UserIds : \E out \in StGetAllUserOrderItemsOutputs(userId) \cup {Threw} :
         stCall' = Called("getAllUserOrderItems", userId, out,
                          MeasureOperation(out, 1))
    /\ UNCHANGED <<project, db, relCall>>

RelGetUserOrders ==
    /\ project = "orders"
    /\ relCall = NoCall
    /\ \E userId \in UserIds : \E out \in RelGetUserOrdersOutputs(userId) \cup {Threw} :
         relCall' = Called("getUserOrders", userId, out, MeasureOperation(out, 1))
    /\ UNCHANGED <<project, db, stCall>>

\* printComparison(relationalResult, singleTableResult): the test point logs
\* the two results and returns; the next test point starts with fresh results
PrintComparison ==
    /\ relCall # NoCall
    /\ stCall # NoCall
    /\ relCall' = NoCall
    /\ stCall' = NoCall
    /\ UNCHANGED <<project, db>>

(***************************************************************************)
(* Group Run: TestService.runAllTests (dynamo-queries).                    *)
(*   rPc        "idle" | "checkUser" | "checkPosts" | "generate" |         *)
(*              "looping" | "insert" | "tests" | "done" | "failed"         *)
(*   rSkip      skipDataInsertion                                          *)
(*   rUserCount userCount (the other counts keep their defaults)           *)
(*   rInserted  the batchCreate calls insertTestData has made              *)
(*   rPoint     the test point running, an index of TestPoints             *)
(*   rCalls     the DAO calls the running function has made and awaited    *)
(*   rLog       the test points entered, in order                          *)
(*   rRequests  ghost: the DAO calls made so far                           *)
(*   rFailed    ghost: those of them whose request the store rejected      *)
(***************************************************************************)
VARIABLES rPc, rSkip, rUserCount, rInserted, rPoint, rCalls, rLog, rRequests,
          rFailed

runVars == <<rPc, rSkip, rUserCount, rInserted, rPoint, rCalls, rLog,
             rRequests, rFailed>>

\* the batchCreate calls of insertTestData
INSERT_CALLS == 11

\* the test points runAllTests awaits, in order, each with the relational
\* and the single-table operation it compares
TestPoints ==
    <<[name |-> "testPoint1", op |-> "getUserPosts"],
      [name |-> "testPoint2", op |-> "getUserById"],
      [name |-> "testMergedPoints", op |-> "getUserScreenData"],
      [name |-> "testPoint5", op |-> "getAllPosts"],
      [name |-> "testPoint6", op |-> "getAllUserComments"]>>

RunIdle ==
    /\ rPc = "idle"
    /\ rSkip = FALSE
    /\ rUserCount = 0
    /\ rInserted = 0
    /\ rPoint = 1
    /\ rCalls = <<>>
    /\ rLog = <<>>
    /\ rRequests = 0
    /\ rFailed = 0

\* what the store may answer to the request of a DAO call of the run
OnePost == RelationalPost("post-00000001", "user-00001")

RunOutputs(op) ==
    IF op = "getUserById"
    THEN {Threw, GetOutput({}), GetOutput({RelationalUser("user-00001")})}
    ELSE {Threw, PageOutput({}, {}), PageOutput({OnePost}, {OnePost})}

\* a DAO call of the run: measureOperation around the request
RunCall(op, out) == [op |-> op, out |-> out, result |-> MeasureOperation(out, 1)]

Counted(out) ==
    /\ rRequests' = rRequests + 1
    /\ rFailed' = rFailed + (IF out.threw THEN 1 ELSE 0)

\* runAllTests(userCount, ..., skipDataInsertion) is called
RunAllTests ==
    /\ rPc = "idle"
    /\ \E skip \in BOOLEAN, userCount \in 0..MaxUsers :
         /\ rSkip' = skip
         /\ rUserCount' = userCount
         /\ rPc' = IF skip THEN "tests" ELSE "checkUser"
    /\ UNCHANGED <<rInserted, rPoint, rCalls, rLog, rRequests, rFailed>>

\* checkIfDataExists: relationalDAO.getUserById('user-00001')
CheckIfDataExistsUser ==
    /\ rPc = "checkUser"
    /\ \E out \in RunOutputs("getUserById") :
         /\ rCalls' = <<RunCall("getUserById", out)>>
         /\ Counted(out)
    /\ rPc' = "checkPosts"
    /\ UNCHANGED <<rSkip, rUserCount, rInserted, rPoint, rLog>>

\* userCheck.success && postCheck.success && postCheck.itemCount > 0
HasData(userCheck, postCheck) ==
    userCheck.success /\ postCheck.success /\ postCheck.itemCount > 0

\* checkIfDataExists: relationalDAO.getUserPosts('user-00001'), and the
\* branch of runAllTests on its answer
CheckIfDataExistsPosts ==
    /\ rPc = "checkPosts"
    /\ \E out \in RunOutputs("getUserPosts") :
         /\ rPc' = IF HasData(rCalls[1].result, RunCall("getUserPosts", out).result)
                   THEN "tests" ELSE "generate"
         /\ Counted(out)
    /\ rCalls' = <<>>
    /\ UNCHANGED <<rSkip, rUserCount, rInserted, rPoint, rLog>>

\* const followerCount = Math.max(userCount * 2, 10)
FollowerCount(userCount) == IF userCount * 2 > 10 THEN userCount * 2 ELSE 10

\* DataGenerator.generateTestData returns: there are users to draw from and
\* generateRelationalFollowers finds followerCount unused follower-following
\* pairs among the userCount * userCount there are
GenerateTestData ==
    /\ rPc = "generate"
    /\ rUserCount > 0
    /\ rUserCount * rUserCount >= FollowerCount(rUserCount)
    /\ rPc' = "insert"
    /\ UNCHANGED <<rSkip, rUserCount, rInserted, rPoint, rCalls, rLog,
                   rRequests, rFailed>>

\* with no user, users[...] is undefined and reading its id throws; the catch
\* of runAllTests logs the error and throws it again
GenerateTestDataThrows ==
    /\ rPc = "generate"
    /\ rUserCount = 0
    /\ rPc' = "failed"
    /\ UNCHANGED <<rSkip, rUserCount, rInserted, rPoint, rCalls, rLog,
                   rRequests, rFailed>>

\* with fewer pairs than followerCount the do-while of
\* generateRelationalFollowers never finds an unused pair
GenerateTestDataLoops ==
    /\ rPc = "generate"
    /\ rUserCount > 0
    /\ rUserCount * rUserCount < FollowerCount(rUserCount)
    /\ rPc' = "looping"
    /\ UNCHANGED <<rSkip, rUserCount, rInserted, rPoint, rCalls, rLog,
                   rRequests, rFailed>>

\* insertTestData: the next batchCreate call; requests of it that the store
\* rejects are caught per batch and the call returns a TestResult
InsertTestData ==
    /\ rPc = "insert"
    /\ \E out \in {Threw, PageOutput({}, {})} : Counted(out)
    /\ rInserted' = rInserted + 1
    /\ rPc' = IF rInserted + 1 = INSERT_CALLS THEN "tests" ELSE "insert"
    /\ UNCHANGED <<rSkip, rUserCount, rPoint, rCalls, rLog>>

\* a test point starts: it awaits the relational DAO's operation
TestPointRelational ==
    /\ rPc = "tests"
    /\ rCalls = <<>>
    /\ rLog' = Append(rLog, TestPoints[rPoint].name)
    /\ \E out \in RunOutputs(TestPoints[rPoint].op) :
         /\ rCalls' = <<RunCall(TestPoints[rPoint].op, out)>>
         /\ Counted(out)
    /\ UNCHANGED <<rPc, rSkip, rUserCount, rInserted, rPoint>>

\* then the single-table DAO's operation
TestPointSingleTable ==
    /\ rPc = "tests"
    /\ Len(rCalls) = 1
    /\ \E out \in RunOutputs(TestPoints[rPoint].op) :
         /\ rCalls' = Append(rCalls, RunCall(TestPoints[rPoint].op, out))
         /\ Counted(out)
    /\ UNCHANGED <<rPc, rSkip, rUserCount, rInserted, rPoint, rLog>>

\* then printComparison(badResult, goodResult), and the test point returns;
\* after the last one runAllTests returns
TestPointReturns ==
    /\ rPc = "tests"
    /\ Len(rCalls) = 2
    /\ rCalls' = <<>>
    /\ IF rPoint = Len(TestPoints)
       THEN rPc' = "done" /\ rPoint' = rPoint
       ELSE rPc' = rPc /\ rPoint' = rPoint + 1
    /\ UNCHANGED <<rSkip, rUserCount, rInserted, rLog, rRequests, rFailed>>

(***************************************************************************)
(* Group Client: the DynamoDBClient a BaseDAO constructs, and the requests *)
(* one DAO operation sends through it.                                     *)
(*   cDao       "dynamo-tests" | "dynamo-queries": whose BaseDAO it is     *)
(*   cAttempts  the attempts the client makes per request (maxAttempts)    *)
(*   cPc        "idle" | "sending" | "returned" | "threw"                  *)
(*   cRequests  the requests the operation sends, one client.send each     *)
(*   cSent      the times the store received each request sent so far      *)
(***************************************************************************)
VARIABLES cDao, cAttempts, cPc, cRequests, cSent

clientVars == <<cDao, cAttempts, cPc, cRequests, cSent>>

\* new DynamoDBClient({ region: awsRegion, maxAttempts: 3 })
maxAttempts == 3

ClientIdle ==
    /\ cDao = "none"
    /\ cAttempts = 0
    /\ cPc = "idle"
    /\ cRequests = 0
    /\ cSent = <<>>

\* the BaseDAO constructors: the performance suite's configures maxAttempts;
\* the design-pattern suite's passes the region alone, which leaves the
\* attempts to the client library
ClientInit ==
    /\ \/ cDao = "dynamo-tests" /\ cAttempts = maxAttempts
       \/ cDao = "dynamo-queries" /\ cAttempts \in 1..MaxDefaultAttempts
    /\ cPc = "idle"
    /\ cRequests = 0
    /\ cSent = <<>>

\* a DAO operation starts: it will send n requests, one after the other
\* (one for a get or a query, 1 + posts for getAllUserComments, ...)
OperationStarts ==
    /\ cPc \in {"idle", "returned", "threw"}
    /\ \E n \in 1..MaxRequests : cRequests' = n
    /\ cPc' = "sending"
    /\ cSent' = <<>>
    /\ UNCHANGED <<cDao, cAttempts>>

\* the last request sent awaits the store's answer
InFlight == IF cSent = <<>> THEN FALSE ELSE cSent[Len(cSent)] > 0

\* await this.client.send(command): the request reaches the store
ClientSend ==
    /\ cPc = "sending"
    /\ Len(cSent) < cRequests
    /\ ~InFlight
    /\ cSent' = Append(cSent, 1)
    /\ UNCHANGED <<cDao, cAttempts, cPc, cRequests>>

\* the sign of an entry of cSent tells whether the request is settled
Settled(sent) == [sent EXCEPT ![Len(sent)] = -sent[Len(sent)]]

\* the store answers the request in flight: client.send resolves
StoreAnswers ==
    /\ cPc = "sending"
    /\ InFlight
    /\ cSent' = Settled(cSent)
    /\ cPc' = IF Len(cSent) = cRequests THEN "returned" ELSE "sending"
    /\ UNCHANGED <<cDao, cAttempts, cRequests>>

\* the store rejects the request in flight (throttling, connectivity) and
\* the client has attempts left: it sends the request again
ClientRetries ==
    /\ cPc = "sending"
    /\ InFlight
    /\ cSent[Len(cSent)] < cAttempts
    /\ cSent' = [cSent EXCEPT ![Len(cSent)] = @ + 1]
    /\ UNCHANGED <<cDao, cAttempts, cPc, cRequests>>

\* the store rejects the request in flight and the client has no attempt
\* left, or the error is not one it retries: client.send rejects, the
\* operation throws into measureOperation and sends nothing more
ClientThrows ==
    /\ cPc = "sending"
    /\ InFlight
    /\ cSent' = Settled(cSent)
    /\ cPc' = "threw"
    /\ UNCHANGED <<cDao, cAttempts, cRequests>>

(***************************************************************************)
(* Group Gen: the data generators.                                         *)
(*   gPc          "idle" | "relational" | "loop" | "mapped"                *)
(*   gProject     "social" (dynamo-queries) | "orders" (dynamo-tests)      *)
(*   gUserCount   the number of users asked for                            *)
(*   gCount       the number of posts, or of orders, asked for             *)
(*   gCommentCount the number of comments asked for                        *)
(*   gPosts       the relational posts, or orders, generated so far        *)
(*   gComments    the relational comments generated so far                 *)
(*   gItems       the single-table items, in the order they are inserted   *)
(*   gRelational  the relational posts (or orders) and comments that       *)
(*                generateTestData returns                                 *)
(* The dates come from Math.random(): any stamp.  generateTestData of      *)
(* dynamo-queries generates twice: generateRelationalTestData ("relational")*)
(* and then generateSingleTableTestData ("loop"), which generates its own  *)
(* relational users, posts and comments and maps them.                     *)
(***************************************************************************)
VARIABLES gPc, gProject, gUserCount, gCount, gCommentCount, gPosts, gComments,
          gItems, gRelational

genVars == <<gPc, gProject, gUserCount, gCount, gCommentCount, gPosts,
             gComments, gItems, gRelational>>

NoRelational == [posts |-> <<>>, comments |-> <<>>]

GenIdle ==
    /\ gPc = "idle"
    /\ gProject = "none"
    /\ gUserCount = 0
    /\ gCount = 0
    /\ gCommentCount = 0
    /\ gPosts = <<>>
    /\ gComments = <<>>
    /\ gItems = <<>>
    /\ gRelational = NoRelational

\* `user-${i.toString().padStart(5, '0')}`
GeneratedUserId(i) ==
    <<"user-00001", "user-00002", "user-00003", "user-00004", "user-00005",
      "user-00006", "user-00007">>[i]

\* `post-${i.toString().padStart(8, '0')}`
GeneratedPostId(i) ==
    <<"post-00000001", "post-00000002", "post-00000003", "post-00000004",
      "post-00000005">>[i]

\* `order-${orderCounter.toString().padStart(8, '0')}`
GeneratedOrderId(i) ==
    <<"order-00000001", "order-00000002", "order-00000003",
      "order-00000004">>[i]

\* the counts a generator is called with
GenUserCounts == {1, 2}
GenCommentCounts == {0, 1}

\* generateTestData(userCount, postCount, commentCount, ...) of either
\* project is called; the users are generated (their ids are 1..userCount)
GenerateTestDataCalled ==
    /\ gPc = "idle"
    /\ \E p \in {"social", "orders"}, u \in GenUserCounts, n \in 0..MaxGenerated :
         /\ gProject' = p
         /\ gUserCount' = u
         /\ gCount' = n
         /\ \E c \in GenCommentCounts :
              gCommentCount' = IF p = "social" /\ n > 0 THEN c ELSE 0
    /\ gPc' = IF gProject' = "social" THEN "relational" ELSE "loop"
    /\ UNCHANGED <<gPosts, gComments, gItems, gRelational>>

\* generateRelationalPosts, iteration i = 1..count:
\* userId = users[i % users.length].id, createdAt random
GenerateRelationalPosts ==
    /\ gPc \in {"relational", "loop"}
    /\ gProject = "social"
    /\ Len(gPosts) < gCount
    /\ LET i == Len(gPosts) + 1 IN
       \E createdAt \in Stamps :
         gPosts' = Append(gPosts,
                          [id |-> GeneratedPostId(i),
                           userId |-> GeneratedUserId((i % gUserCount) + 1),
                           createdAt |-> createdAt])
    /\ UNCHANGED <<gPc, gProject, gUserCount, gCount, gCommentCount, gComments,
                   gItems, gRelational>>

\* generateRelationalComments, iteration i = 1..count:
\* userId = users[i % users.length].id, post = posts[i % posts.length]
GenerateRelationalComments ==
    /\ gPc \in {"relational", "loop"}
    /\ gProject = "social"
    /\ Len(gPosts) = gCount
    /\ Len(gComments) < gCommentCount
    /\ LET i == Len(gComments) + 1 IN
       \E createdAt \in Stamps :
         gComments' = Append(gComments,
                             [id |-> "comment-00000001",
                              userId |-> GeneratedUserId((i % gUserCount) + 1),
                              postId |-> gPosts[(i % Len(gPosts)) + 1].id,
                              createdAt |-> createdAt])
    /\ UNCHANGED <<gPc, gProject, gUserCount, gCount, gCommentCount, gPosts,
                   gItems, gRelational>>

\* generateRelationalTestData returns its posts and comments;
\* generateSingleTableTestData starts from nothing
GenerateRelationalTestData ==
    /\ gPc = "relational"
    /\ Len(gPosts) = gCount
    /\ Len(gComments) = gCommentCount
    /\ gRelational' = [posts |-> gPosts, comments |-> gComments]
    /\ gPosts' = <<>>
    /\ gComments' = <<>>
    /\ gPc' = "loop"
    /\ UNCHANGED <<gProject, gUserCount, gCount, gCommentCount, gItems>>

\* generateOrders, iteration i = 0..count-1: userIndex = i % users.length,
\* orderId from orderCounter = i + 1, orderDate random
GenerateOrders ==
    /\ gPc = "loop"
    /\ gProject = "orders"
    /\ Len(gPosts) < gCount
    /\ LET i == Len(gPosts) IN
       \E orderDate \in Stamps :
         gPosts' = Append(gPosts,
                          [orderId |-> GeneratedOrderId(i + 1),
                           userId |-> GeneratedUserId((i % gUserCount) + 1),
                           orderDate |-> orderDate])
    /\ UNCHANGED <<gPc, gProject, gUserCount, gCount, gCommentCount, gComments,
                   gItems, gRelational>>

\* generateSingleTableUsers, generateSingleTablePosts (or ...Orders) and
\* generateSingleTableComments: users.map, posts.map, comments.map
GenerateSingleTable(proj, users, posts, comments) ==
    IF proj = "social"
    THEN [k \in 1..users |-> SingleTableUser(GeneratedUserId(k))]
         \o [k \in DOMAIN posts |-> SingleTablePost(posts[k])]
         \o [k \in DOMAIN comments |-> SingleTableComment(comments[k])]
    ELSE [k \in 1..users |-> SingleTableOrderUser(GeneratedUserId(k))]
         \o [k \in DOMAIN posts |-> SingleTableOrderItem(posts[k])]

\* the relational data is complete and is mapped to single-table items;
\* generateTestData of dynamo-tests returns the orders it mapped
GenerateSingleTableData ==
    /\ gPc = "loop"
    /\ Len(gPosts) = gCount
    /\ Len(gComments) = gCommentCount
    /\ gItems' = GenerateSingleTable(gProject, gUserCount, gPosts, gComments)
    /\ gRelational' = IF gProject = "orders"
                      THEN [posts |-> gPosts, comments |-> <<>>]
                      ELSE gRelational
    /\ gPc' = "mapped"
    /\ UNCHANGED <<gProject, gUserCount, gCount, gCommentCount, gPosts,
                   gComments>>

(***************************************************************************)
(* Group Clear: TestService.clearAllData (dynamo-queries).  The items of a *)
(* table are interchangeable here, a table is the number of items it holds.*)
(*   clPc       "idle" | "scan" | "delete" | "done" | "threw"              *)
(*   clTables   the number of items each table holds                       *)
(*   clT        the position in ClearTableNames of the table being cleared *)
(*   clFound    result.Items.length of the scan of that table              *)
(*   clI        the loop index i of the delete loop                        *)
(*   clRequests the BatchWriteCommands sent for that table: <<first, last>>*)
(*              index into result.Items                                    *)
(***************************************************************************)
VARIABLES clPc, clTables, clT, clFound, clI, clRequests

clearVars == <<clPc, clTables, clT, clFound, clI, clRequests>>

\* clearRelationalTables' list, then clearSingleTable's table
ClearTableNames ==
    <<"users-relational", "posts-relational", "comments-relational",
      "followers-relational", "user-following-relational", "likes-relational",
      "single-table-social">>

ClearIdle ==
    /\ clPc = "idle"
    /\ clTables = [t \in DOMAIN ClearTableNames |-> 0]
    /\ clT = 0
    /\ clFound = 0
    /\ clI = 0
    /\ clRequests = <<>>

\* what the tables may hold when clearAllData is called: no item or one, and
\* at most one table with more than one batch of items
ClearContents ==
    {f \in [DOMAIN ClearTableNames -> {0, 1, MaxItems - 1}] :
        Cardinality({t \in DOMAIN f : f[t] > 1}) <= 1}

\* clearAllData() is called; clearRelationalTables starts with the first table
ClearAllData ==
    /\ clPc = "idle"
    /\ clTables' \in ClearContents
    /\ clPc' = "scan"
    /\ clT' = 1
    /\ UNCHANGED <<clFound, clI, clRequests>>

\* the number of items one ScanCommand answers with: the scan is sent once,
\* without ExclusiveStartKey, so it is the first page, which is the whole
\* table when the table fits in a page
ScanFound(count) == {count} \cup {n \in {PageLimit} : n < count}

\* clearTable(tableName) sends its scan and the store answers
ClearScan ==
    /\ clPc = "scan"
    /\ clT <= Len(ClearTableNames)
    /\ \E n \in ScanFound(clTables[clT]) :
         /\ clFound' = n
         /\ IF n > 0 THEN clPc' = "delete" /\ clT' = clT
                     ELSE clPc' = "scan" /\ clT' = clT + 1
    /\ clI' = 0
    /\ clRequests' = <<>>
    /\ UNCHANGED clTables

\* the scan throws: clearTable and clearAllData log and rethrow
ClearScanThrows ==
    /\ clPc = "scan"
    /\ clT <= Len(ClearTableNames)
    /\ clPc' = "threw"
    /\ UNCHANGED <<clTables, clT, clFound, clI, clRequests>>

\* one iteration of the delete loop whose request the store answers, leaving
\* u of the batch's keys unprocessed; the answer is not looked at
ClearDeleteAnswered ==
    /\ clPc = "delete"
    /\ clI < clFound
    /\ LET len == BatchLength(clFound, clI) IN
       \E u \in 0..Min(len, MaxUnprocessed) :
         /\ clRequests' = Append(clRequests, <<clI + 1, clI + len>>)
         /\ clTables' = [clTables EXCEPT ![clT] = @ - (len - u)]
    /\ clI' = clI + BATCH_SIZE
    /\ UNCHANGED <<clPc, clT, clFound>>

\* one iteration of the delete loop whose request throws
ClearDeleteThrows ==
    /\ clPc = "delete"
    /\ clI < clFound
    /\ clRequests' =
         Append(clRequests, <<clI + 1, clI + BatchLength(clFound, clI)>>)
    /\ clPc' = "threw"
    /\ UNCHANGED <<clTables, clT, clFound, clI>>

\* the delete loop is over: clearTable returns, the next table is cleared
ClearTableReturns ==
    /\ clPc = "delete"
    /\ clI >= clFound
    /\ clPc' = "scan"
    /\ clT' = clT + 1
    /\ UNCHANGED <<clTables, clFound, clI, clRequests>>

\* every table was gone through: clearAllData returns
ClearAllDataReturns ==
    /\ clPc = "scan"
    /\ clT > Len(ClearTableNames)
    /\ clPc' = "done"
    /\ UNCHANGED <<clTables, clT, clFound, clI, clRequests>>

(***************************************************************************)
(* Group Write: BaseDAO.batchWrite of the performance test suite.          *)
(*   wPc       "idle" | "loop" | "done"                                    *)
(*   wN        items.length (the items are 1..wN)                          *)
(*   wBatches  chunkArray(items, 25): <<first, last>> item index per chunk *)
(*   wRequests the BatchWriteCommands sent: <<first, last>> item index     *)
(*   wResult   the TestResult returned                                     *)
(***************************************************************************)
VARIABLES wPc, wN, wBatches, wRequests, wResult

writeVars == <<wPc, wN, wBatches, wRequests, wResult>>

WriteIdle ==
    /\ wPc = "idle"
    /\ wN = 0
    /\ wBatches = <<>>
    /\ wRequests = <<>>
    /\ wResult = NoResult

\* chunkArray(array, size), from index i on; the array is 1..n
RECURSIVE ChunksFrom(_, _, _)
ChunksFrom(n, size, i) ==
    IF i < n
    THEN <<(<<i + 1, Min(n, i + size)>>)>> \o ChunksFrom(n, size, i + size)
    ELSE <<>>

ChunkArray(n, size) == ChunksFrom(n, size, 0)

\* batchWrite(items) is called with n items and chunks them
PerfBatchWrite ==
    /\ wPc = "idle"
    /\ \E n \in 0..MaxItems :
         /\ wN' = n
         /\ wBatches' = ChunkArray(n, BATCH_SIZE)
    /\ wPc' = "loop"
    /\ UNCHANGED <<wRequests, wResult>>

\* one iteration of `for (const batch of batches)` whose request is answered
PerfBatchSend ==
    /\ wPc = "loop"
    /\ Len(wRequests) < Len(wBatches)
    /\ wRequests' = Append(wRequests, wBatches[Len(wRequests) + 1])
    /\ UNCHANGED <<wPc, wN, wBatches, wResult>>

\* one iteration whose request throws: measureOperation catches
PerfBatchThrows ==
    /\ wPc = "loop"
    /\ Len(wRequests) < Len(wBatches)
    /\ wRequests' = Append(wRequests, wBatches[Len(wRequests) + 1])
    /\ wResult' = [success |-> FALSE, itemCount |-> wN, recordCount |-> 0]
    /\ wPc' = "done"
    /\ UNCHANGED <<wN, wBatches>>

\* the loop is over: the array of results goes through measureOperation,
\* whose recordCount of an array is its length
PerfBatchReturns ==
    /\ wPc = "loop"
    /\ Len(wRequests) = Len(wBatches)
    /\ wResult' = [success |-> TRUE, itemCount |-> wN,
                   recordCount |-> Len(wRequests)]
    /\ wPc' = "done"
    /\ UNCHANGED <<wN, wBatches, wRequests>>

\* the caller takes the result; the DAO is ready for the next call
PerfBatchReset ==
    /\ wPc = "done"
    /\ wPc' = "idle"
    /\ wN' = 0
    /\ wBatches' = <<>>
    /\ wRequests' = <<>>
    /\ wResult' = NoResult

(***************************************************************************)
(* Group Runner: TestRunner of the performance test suite (dynamo-tests).  *)
(*   tPc          "idle" | "insert" | "relational" | "singleTable" |       *)
(*                "report" | "done"                                        *)
(*   tCredentials the AWS credentials are configured                       *)
(*   tUserCount   the number of test users (testData.users.length)         *)
(*   tOrderCount  config.orderCount                                        *)
(*   tK           the users the running loop has tested                    *)
(*   tMeasured    the operations that went through measureOperation, each  *)
(*                of which produced a TestResult                           *)
(*   tRecorded    this.results.length                                      *)
(*   tFailed      the recorded results with success = false                *)
(*   tFiles       the report files written                                 *)
(* tPc is "idle" | "insert" | "relational" | "singleTable" | "report" |    *)
(* "done" | "failed", the last when the run rethrows an error.             *)
(***************************************************************************)
VARIABLES tPc, tCredentials, tUserCount, tOrderCount, tK, tMeasured, tRecorded,
          tFailed, tFiles

runnerVars == <<tPc, tCredentials, tUserCount, tOrderCount, tK, tMeasured,
                tRecorded, tFailed, tFiles>>

\* generateMinimalReportTestData: Array.from({ length: 10 }, ...)
REPORT_USERS == 10

\* runRelationalTests, runSingleTableTests: the tests of one user
TESTS_PER_USER == 3

RunnerIdle ==
    /\ tPc = "idle"
    /\ tCredentials = TRUE
    /\ tUserCount = 0
    /\ tOrderCount = 0
    /\ tK = 0
    /\ tMeasured = 0
    /\ tRecorded = 0
    /\ tFailed = 0
    /\ tFiles = {}

\* what a request may come to: without credentials the SDK fails to
\* resolve them when the command is sent, and send() rejects
RunnerOutputs(credentials) ==
    IF credentials THEN {Threw, PageOutput({}, {})} ELSE {Threw}

\* the number of measured operations among outs that failed
FailedOf(outs) ==
    Cardinality({k \in DOMAIN outs :
                    ~PerfMeasureOperation(outs[k], 1).success})

\* main without --report-only: new TestRunner(config), runAllTests();
\* getNetworkInfo catches its own errors, generateTestData makes the users
TestRunnerRunAllTests ==
    /\ tPc = "idle"
    /\ tCredentials' \in BOOLEAN
    /\ tUserCount' \in 0..MaxUsers
    /\ tOrderCount' \in 0..1
    /\ tPc' = "insert"
    /\ UNCHANGED <<tK, tMeasured, tRecorded, tFailed, tFiles>>

\* main with --report-only: runReportOnly() goes straight to the tests
TestRunnerRunReportOnly ==
    /\ tPc = "idle"
    /\ tCredentials' \in BOOLEAN
    /\ tUserCount' = REPORT_USERS
    /\ tPc' = "relational"
    /\ UNCHANGED <<tOrderCount, tK, tMeasured, tRecorded, tFailed, tFiles>>

\* an item count as getTableItemCount returns it: a DescribeTable that
\* throws is caught and counts as 0
TableItemCounts(credentials, most) == IF credentials THEN 0..most ELSE {0}

\* insertTestData: three item counts, then one measured batchCreate per
\* table that holds less than is required; the TestResults are dropped
TestRunnerInsertTestData ==
    /\ tPc = "insert"
    /\ \E usersCount \in TableItemCounts(tCredentials, tUserCount),
          ordersCount \in TableItemCounts(tCredentials, tOrderCount),
          singleTableCount \in
              TableItemCounts(tCredentials, tUserCount + tOrderCount) :
         tMeasured' = tMeasured
                      + (IF usersCount < tUserCount THEN 1 ELSE 0)
                      + (IF ordersCount < tOrderCount THEN 1 ELSE 0)
                      + (IF singleTableCount < tUserCount + tOrderCount
                         THEN 1 ELSE 0)
    /\ tPc' = "relational"
    /\ tK' = 0
    /\ UNCHANGED <<tCredentials, tUserCount, tOrderCount, tRecorded, tFailed,
                   tFiles>>

\* one iteration of a loop of runPerformanceTests: runRelationalTests(user)
\* or runSingleTableTests(user) measures three operations, and the three
\* TestResults are pushed to this.results
TestRunnerTestsUser ==
    /\ tPc \in {"relational", "singleTable"}
    /\ tK < tUserCount
    /\ \E outs \in [1..TESTS_PER_USER -> RunnerOutputs(tCredentials)] :
         tFailed' = tFailed + FailedOf(outs)
    /\ tMeasured' = tMeasured + TESTS_PER_USER
    /\ tRecorded' = tRecorded + TESTS_PER_USER
    /\ tK' = tK + 1
    /\ UNCHANGED <<tPc, tCredentials, tUserCount, tOrderCount, tFiles>>

\* the loop over testUsers is over: the loop over testSingleTableUsers starts
TestRunnerRelationalDone ==
    /\ tPc = "relational"
    /\ tK = tUserCount
    /\ tPc' = "singleTable"
    /\ tK' = 0
    /\ UNCHANGED <<tCredentials, tUserCount, tOrderCount, tMeasured, tRecorded,
                   tFailed, tFiles>>

\* runPerformanceTests returns
TestRunnerSingleTableDone ==
    /\ tPc = "singleTable"
    /\ tK = tUserCount
    /\ tPc' = "report"
    /\ UNCHANGED <<tCredentials, tUserCount, tOrderCount, tK, tMeasured,
                   tRecorded, tFailed, tFiles>>

\* createPerformanceReport: allSuccessfulResults.reduce(..., allSuccessfulResults[0])
\* is a TestResult when a recorded result succeeded and undefined otherwise
HasFastestRequest(recorded, failed) == recorded - failed > 0

\* generateReport writes test-results.json, then generateMarkdownReport
\* reads report.performance.fastestRequest.testName: a TypeError when
\* fastestRequest is undefined, which runAllTests and runReportOnly log and
\* rethrow; otherwise results.md is written, and the run logs its success
TestRunnerGenerateReport ==
    /\ tPc = "report"
    /\ IF HasFastestRequest(tRecorded, tFailed)
       THEN /\ tFiles' = {"test-results.json", "results.md"}
            /\ tPc' = "done"
       ELSE /\ tFiles' = {"test-results.json"}
            /\ tPc' = "failed"
    /\ UNCHANGED <<tCredentials, tUserCount, tOrderCount, tK, tMeasured,
                   tRecorded, tFailed>>

(***************************************************************************)
(* Group Par: SingleTableDAO.getAllOrdersByDateRangeParallel.              *)
(*   pPc       "idle" | "waiting" | "done"                                 *)
(*   pSent     the partition value of each QueryCommand sent, in the order *)
(*             of sending                                                  *)
(*   pShard    per shard id: state "none" | "pending" | "fulfilled" |      *)
(*             "rejected" of its request, and n, the number of items the   *)
(*             store answered with                                         *)
(*   pArrival  the shard ids in the order their requests settled           *)
(*   pCombined <<combinedResult>> once it is built, <<>> before           *)
(*   pResult   the TestResult returned                                     *)
(* The fan-out, 20 in the source, is MaxShards here.                       *)
(***************************************************************************)
VARIABLES pPc, pSent, pShard, pArrival, pCombined, pResult

parVars == <<pPc, pSent, pShard, pArrival, pCombined, pResult>>

\* Array.from({ length: 20 }, ...): the shard ids
ShardIds == 1..MaxShards

\* measureOperation(..., 20): the itemCount argument
PARALLEL_REQUESTS == 20

ParIdle ==
    /\ pPc = "idle"
    /\ pSent = <<>>
    /\ pShard = [s \in ShardIds |-> [state |-> "none", n |-> 0]]
    /\ pArrival = <<>>
    /\ pCombined = <<>>
    /\ pResult = NoResult

\* ':entityType': EntityType.ORDER + '#' + shardId, of the parallel query
\* and of getAllOrdersByDateRange(shardId, ...) alike
DateRangeKey(shardId) == <<"ORDER", "#", shardId>>

\* what the store answers the query of shard s with when it holds n orders
\* of that shard in the date range: the items are <<s, 1>> .. <<s, n>>
ShardOutput(s, n) ==
    [threw |-> FALSE, hasItems |-> TRUE, Items |-> [k \in 1..n |-> <<s, k>>],
     Item |-> <<>>, hasCount |-> TRUE, Count |-> n, hasCap |-> TRUE,
     cap |-> n, ScannedCount |-> n]

\* a faulty variant of ShardResults: the results in the order they arrived
ShardResultsByArrival(shards, arrival) ==
    [k \in ShardIds |-> ShardOutput(arrival[k], shards[arrival[k]].n)]

\* the value Promise.all(shardPromises) resolves to: the results in the
\* order of the promises, whatever the order of arrival
ShardResults(shards, arrival) ==
    [s \in ShardIds |-> ShardOutput(s, shards[s].n)]

\* shardResults.flatMap(result => result.Items || [])
RECURSIVE FlatMapItems(_)
FlatMapItems(results) ==
    IF results = <<>> THEN <<>>
    ELSE results[1].Items \o FlatMapItems(Tail(results))

\* shardResults.reduce((sum, result) => sum + (result.Count || 0), 0)
RECURSIVE SumCount(_)
SumCount(results) ==
    IF results = <<>> THEN 0 ELSE results[1].Count + SumCount(Tail(results))

\* combinedResult; its ConsumedCapacity is an object in every case
CombinedResult(results) ==
    [threw |-> FALSE, hasItems |-> TRUE, Items |-> FlatMapItems(results),
     Item |-> <<>>, hasCount |-> TRUE, Count |-> SumCount(results),
     hasCap |-> TRUE, cap |-> SumCount(results),
     ScannedCount |-> SumCount(results)]

\* a faulty variant of PromiseAll that waits for every request and merges
\* the fulfilled ones only
PromiseAllSettled(shards, arrival) ==
    IF \E s \in ShardIds : shards[s].state = "pending"
    THEN <<>>
    ELSE <<CombinedResult(
             ShardResults([s \in ShardIds |->
                              IF shards[s].state = "fulfilled" THEN shards[s]
                              ELSE [state |-> "fulfilled", n |-> 0]],
                          arrival))>>

\* the outcome of `await Promise.all(shardPromises)` and of the merge that
\* follows it, <<outcome>>, or <<>> while the await goes on: it rejects with
\* the first rejection and resolves when every promise is fulfilled
PromiseAll(shards, arrival) ==
    IF \E s \in ShardIds : shards[s].state = "rejected"
    THEN <<Threw>>
    ELSE IF \A s \in ShardIds : shards[s].state = "fulfilled"
    THEN <<CombinedResult(ShardResults(shards, arrival))>>
    ELSE <<>>

\* getAllOrdersByDateRangeParallel(startDate, endDate) is called: the
\* callback of Array.from sends the query of every shard, then the
\* operation awaits Promise.all
ParallelCall ==
    /\ pPc = "idle"
    /\ pSent' = [s \in ShardIds |-> DateRangeKey(s)]
    /\ pShard' = [s \in ShardIds |-> [state |-> "pending", n |-> 0]]
    /\ pPc' = "waiting"
    /\ UNCHANGED <<pArrival, pCombined, pResult>>

\* the request of shard s settles as state, with n items.  While the
\* operation awaits, a settlement that decides Promise.all resumes it: the
\* merge, or the throw into measureOperation's catch, and the return
ShardSettles(s, state, n) ==
    /\ pShard[s].state = "pending"
    /\ pShard' = [pShard EXCEPT ![s] = [state |-> state, n |-> n]]
    /\ pArrival' = Append(pArrival, s)
    /\ LET outcome == PromiseAll(pShard', pArrival') IN
       IF pPc = "waiting" /\ outcome # <<>>
       THEN /\ pResult' = MeasureOperation(outcome[1], PARALLEL_REQUESTS)
            /\ pCombined' = IF outcome[1].threw THEN <<>> ELSE outcome
            /\ pPc' = "done"
       ELSE UNCHANGED <<pPc, pCombined, pResult>>
    /\ UNCHANGED pSent

\* the store answers the query of a shard
ShardFulfils ==
    \E s \in ShardIds : \E n \in 0..MaxShardItems :
        ShardSettles(s, "fulfilled", n)

\* the query of a shard fails
ShardRejects == \E s \in ShardIds : ShardSettles(s, "rejected", 0)

(***************************************************************************)
(* Group Screen: getUserScreenData of the two DAOs (dynamo-queries), as    *)
(* testMergedPoints calls them: the relational one, then the single-table  *)
(* one, which reads db["single-table-social"] and leaves its call in       *)
(* stCall.                                                                 *)
(*   sPc           "idle" | "user" | "posts" | "comments" | "followers" |  *)
(*                 "likes" | "done": the request the relational operation  *)
(*                 is at                                                   *)
(*   sAwait        a request of the relational operation is in flight      *)
(*   sPosts        posts.Items.length                                      *)
(*   sK            the posts the running loop has gone through             *)
(*   sSent         the requests the relational operation sent, by kind     *)
(*   sRequestCount requestCount                                            *)
(*   sItems        the items fetched so far, other than the user           *)
(*   sReported     the requestCount of the object the relational operation *)
(*                 returns, -1 before                                      *)
(*   sResult       the TestResult of the relational operation              *)
(*   sStSent       the partition values the single-table operation queried *)
(***************************************************************************)
VARIABLES sPc, sAwait, sPosts, sK, sSent, sRequestCount, sItems, sReported,
          sResult, sStSent

screenVars == <<sPc, sAwait, sPosts, sK, sSent, sRequestCount, sItems,
                sReported, sResult, sStSent>>

ScreenIdle ==
    /\ sPc = "idle"
    /\ sAwait = FALSE
    /\ sPosts = 0
    /\ sK = 0
    /\ sSent = <<>>
    /\ sRequestCount = 0
    /\ sItems = 0
    /\ sReported = -1
    /\ sResult = NoResult
    /\ sStSent = <<>>

\* DataGenerator.generateSingleTableFollowers (dynamo-queries), one follower
SingleTableFollower(follower) ==
    Item(<<"USER", "#", follower.followingId>>,
         <<"FOLLOWER", "#", follower.createdAt>>, "FOLLOWER", follower.id,
         <<>>, <<>>, <<>>)

\* DataGenerator.generateSingleTableLikes (dynamo-queries), one like
SingleTableLike(like) ==
    Item(<<"USER", "#", like.userId>>, <<"LIKE", "#", like.createdAt>>, "LIKE",
         like.id, <<like.userId>>, <<like.postId>>, <<>>)

\* what the partitions of the users may hold: per user the user, a post, a
\* comment, a follower and a like
ScreenUniverse ==
    UNION {{SingleTableUser(u),
            SingleTablePost([id |-> "post-00000001", userId |-> u,
                             createdAt |-> "t1"]),
            SingleTableComment([id |-> "comment-00000001", userId |-> u,
                                postId |-> "post-00000001", createdAt |-> "t1"]),
            SingleTableFollower([id |-> "follower-00000001", followingId |-> u,
                                 createdAt |-> "t1"]),
            SingleTableLike([id |-> "like-00000001", userId |-> u,
                             postId |-> "post-00000001", createdAt |-> "t1"])} :
           u \in UserIds}

ScreenInit ==
    /\ ScreenIdle
    /\ project = "social"
    /\ relCall = NoCall
    /\ stCall = NoCall
    /\ \E S \in Contents("single-table-social", ScreenUniverse) :
         db = [EmptyDb EXCEPT !["single-table-social"] = S]

\* relationalDAO.getUserScreenData(userId) is called
RelScreenCall ==
    /\ sPc = "idle"
    /\ sPc' = "user"
    /\ UNCHANGED <<sAwait, sPosts, sK, sSent, sRequestCount, sItems, sReported,
                   sResult, sStSent>>

\* this.client.send(...) of the request the operation is at; the comments
\* loop counts its request before it sends it
RelScreenSend ==
    /\ sPc \in {"user", "posts", "comments", "followers", "likes"}
    /\ ~sAwait
    /\ sSent' = Append(sSent, sPc)
    /\ sRequestCount' = sRequestCount + (IF sPc = "comments" THEN 1 ELSE 0)
    /\ sAwait' = TRUE
    /\ UNCHANGED <<sPc, sPosts, sK, sItems, sReported, sResult, sStSent>>

\* the request after the one at pc, when that one was answered with n items
\* and the loop it belongs to has gone through k posts of posts
NextRequest(pc, n, k, posts) ==
    CASE pc = "user" -> "posts"
      [] pc = "posts" -> IF n > 0 THEN "comments" ELSE "followers"
      [] pc = "comments" -> IF k < posts THEN "comments" ELSE "followers"
      [] pc = "followers" -> IF posts > 0 THEN "likes" ELSE "done"
      [] pc = "likes" -> IF k < posts THEN "likes" ELSE "done"

\* Items of the object the relational operation returns: user.Item, then
\* the posts, comments, followers and likes fetched
ScreenItems(fetched) == [k \in 1..(1 + fetched) |-> k]

\* the object the relational operation returns
RelScreenData(fetched, requestCount) ==
    [threw |-> FALSE, hasItems |-> TRUE, Items |-> ScreenItems(fetched),
     Item |-> <<>>, hasCount |-> TRUE, Count |-> 1 + fetched, hasCap |-> TRUE,
     cap |-> 0, ScannedCount |-> 0, requestCount |-> requestCount]

\* the store answers the request in flight with n items; requestCount++, and
\* the operation goes on to its next request, or returns through
\* measureOperation
RelScreenAnswer ==
    /\ sAwait
    /\ \E n \in 0..(IF sPc = "posts" THEN MaxScreenPosts ELSE 1) :
         LET fetched == sItems + (IF sPc = "user" THEN 0 ELSE n)
             k == IF sPc \in {"comments", "likes"} THEN sK + 1 ELSE 0
             posts == IF sPc = "posts" THEN n ELSE sPosts
             next == NextRequest(sPc, n, k, posts)
         IN  /\ sItems' = fetched
             /\ sK' = k
             /\ sPosts' = posts
             /\ sPc' = next
             /\ IF next = "done"
                THEN /\ sReported' = sRequestCount + 1
                     /\ sResult' = MeasureOperation(
                                     RelScreenData(fetched, sRequestCount + 1), 1)
                ELSE UNCHANGED <<sReported, sResult>>
    /\ sRequestCount' = sRequestCount + 1
    /\ sAwait' = FALSE
    /\ UNCHANGED <<sSent, sStSent>>

\* the request in flight throws: measureOperation catches
RelScreenThrows ==
    /\ sAwait
    /\ sAwait' = FALSE
    /\ sPc' = "done"
    /\ sResult' = MeasureOperation(Threw, 1)
    /\ UNCHANGED <<sPosts, sK, sSent, sRequestCount, sItems, sReported, sStSent>>

\* a faulty variant of OfType that takes the items of every type
RECURSIVE OfTypeAny(_, _)
OfTypeAny(items, type) ==
    IF items = <<>> THEN <<>>
    ELSE <<Head(items)>> \o OfTypeAny(Tail(items), type)

\* the list the loop over result.Items fills for one case of its switch
RECURSIVE OfType(_, _)
OfType(items, type) ==
    IF items = <<>> THEN <<>>
    ELSE (IF Head(items).entityType = type THEN <<Head(items)>> ELSE <<>>)
         \o OfType(Tail(items), type)

\* the object the single-table operation returns for the query output out
StScreenData(out) ==
    [threw |-> FALSE, hasItems |-> TRUE, Items |-> out.Items, Item |-> <<>>,
     hasCount |-> TRUE, Count |-> out.Count, hasCap |-> out.hasCap,
     cap |-> out.cap, ScannedCount |-> out.ScannedCount,
     posts |-> OfType(out.Items, "POST"),
     comments |-> OfType(out.Items, "COMMENT"),
     followers |-> OfType(out.Items, "FOLLOWER"),
     likes |-> OfType(out.Items, "LIKE")]

\* the outputs of the single-table query: key condition PK = `USER#${userId}`
StScreenOutputs(userId) ==
    {QueryOutput({i \in db["single-table-social"] : i.PK = UserKey(userId)}),
     Threw}

\* singleTableDAO.getUserScreenData(userId), called when the relational
\* operation has returned
StGetUserScreenData ==
    /\ sPc = "done"
    /\ stCall = NoCall
    /\ \E userId \in UserIds : \E out \in StScreenOutputs(userId) :
         LET data == IF out.threw THEN Threw ELSE StScreenData(out) IN
         /\ stCall' = Called("getUserScreenData", userId, data,
                             MeasureOperation(data, 1))
         /\ sStSent' = <<UserKey(userId)>>
    /\ UNCHANGED <<project, db, relCall, sPc, sAwait, sPosts, sK, sSent,
                   sRequestCount, sItems, sReported, sResult>>

\* printComparison(badResult, goodResult): the test point returns
ScreenComparison ==
    /\ sPc = "done"
    /\ stCall # NoCall
    /\ stCall' = NoCall
    /\ sPc' = "idle"
    /\ sAwait' = FALSE
    /\ sPosts' = 0
    /\ sK' = 0
    /\ sSent' = <<>>
    /\ sRequestCount' = 0
    /\ sItems' = 0
    /\ sReported' = -1
    /\ sResult' = NoResult
    /\ sStSent' = <<>>
    /\ UNCHANGED <<project, db, relCall>>

(***************************************************************************)
(* Group Again: SingleTableDAO.getUserById and createUser (dynamo-queries) *)
(* called one after the other on the same table.                           *)
(*   aHist   the calls made so far, each with its argument, the store's    *)
(*           answer, the TestResult and the tables before and after it     *)
(***************************************************************************)
VARIABLES aHist

againVars == <<aHist>>

AgainIdle == aHist = <<>>

\* the users and their posts: items that share a partition key
AgainUniverse ==
    {SingleTableUser(u) : u \in UserIds}
    \cup {SingleTablePost(p) : p \in SocialPosts}

AgainInit ==
    /\ project = "social"
    /\ relCall = NoCall
    /\ stCall = NoCall
    /\ aHist = <<>>
    /\ \E S \in Contents("single-table-social", AgainUniverse) :
         db = [EmptyDb EXCEPT !["single-table-social"] = S]

\* a call of the history
AgainCalled(op, arg, out, before, after) ==
    [op |-> op, arg |-> arg, out |-> out, result |-> MeasureOperation(out, 1),
     before |-> before, after |-> after]

\* getUserById: one GetCommand, which reads and writes nothing
AgainGetUserById ==
    /\ project = "social"
    /\ Len(aHist) < MaxHistory
    /\ db' = db
    /\ \E userId \in UserIds : \E out \in StGetUserByIdOutputs(userId) \cup {Threw} :
         aHist' = Append(aHist, AgainCalled("getUserById", userId, out, db, db'))
    /\ UNCHANGED <<project, relCall, stCall>>

\* the answer of a PutCommand
PutOutput ==
    [threw |-> FALSE, hasItems |-> FALSE, Items |-> <<>>, Item |-> <<>>,
     hasCount |-> FALSE, Count |-> 0, hasCap |-> TRUE, cap |-> 1,
     ScannedCount |-> 0]

\* PutCommand: the item replaces the item of the table with its key
PutItem(t, table, item) ==
    {i \in table : KeyOf(t, i) # KeyOf(t, item)} \cup {item}

\* createUser: one PutCommand of the user item
AgainCreateUser ==
    /\ project = "social"
    /\ Len(aHist) < MaxHistory
    /\ \E userId \in UserIds : \E out \in {PutOutput, Threw} :
         /\ db' = IF out.threw THEN db
                  ELSE [db EXCEPT !["single-table-social"] =
                            PutItem("single-table-social", @,
                                    SingleTableUser(userId))]
         /\ aHist' = Append(aHist, AgainCalled("createUser", userId, out, db, db'))
    /\ UNCHANGED <<project, relCall, stCall>>

(***************************************************************************)
(* Group Follow: DataGenerator.generateRelationalFollowers(count, users).  *)
(*   fPc        "idle" | "draw" | "done" | "threw"                         *)
(*   fUsers     users.length                                               *)
(*   fCount     count                                                      *)
(*   fI         the i of the for loop                                      *)
(*   fUsed      usedRelationships, each key as <<followerIndex,            *)
(*              followingIndex>> (the ids are one per index)               *)
(*   fFollowers the <<followerId index, followingId index>> of the         *)
(*              follower records pushed                                    *)
(***************************************************************************)
VARIABLES fPc, fUsers, fCount, fI, fUsed, fFollowers

followVars == <<fPc, fUsers, fCount, fI, fUsed, fFollowers>>

FollowIdle ==
    /\ fPc = "idle"
    /\ fUsers = 0
    /\ fCount = 0
    /\ fI = 0
    /\ fUsed = {}
    /\ fFollowers = {}

\* Math.floor(Math.random() * users.length): any index of users
DrawnIndices(users) == 1..users

\* generateRelationalTestData calls generateRelationalFollowers(
\* Math.max(userCount * 2, 10), users); the for loop starts at i = 1
GenerateRelationalFollowers ==
    /\ fPc = "idle"
    /\ \E userCount \in 0..MaxFollowUsers :
         /\ fUsers' = userCount
         /\ fCount' = FollowerCount(userCount)
    /\ fI' = 1
    /\ fPc' = "draw"
    /\ UNCHANGED <<fUsed, fFollowers>>

\* with no user, users[0] is undefined and reading its id throws
FollowersDrawThrows ==
    /\ fPc = "draw"
    /\ fI <= fCount
    /\ fUsers = 0
    /\ fPc' = "threw"
    /\ UNCHANGED <<fUsers, fCount, fI, fUsed, fFollowers>>

\* one pass of the do-while body whose condition
\* usedRelationships.has(relationshipKey) is true: the body runs again.
\* The 'continue' of the self-follow test jumps to this same condition.
FollowersDrawAgain ==
    /\ fPc = "draw"
    /\ fI <= fCount
    /\ \E followerIndex \in DrawnIndices(fUsers) :
       \E followingIndex \in DrawnIndices(fUsers) :
         <<followerIndex, followingIndex>> \in fUsed
    /\ UNCHANGED <<fPc, fUsers, fCount, fI, fUsed, fFollowers>>

\* one pass whose condition is false: the loop exits, the key is added to
\* usedRelationships, the follower record is pushed and i goes up
FollowersDrawExits ==
    /\ fPc = "draw"
    /\ fI <= fCount
    /\ \E followerIndex \in DrawnIndices(fUsers) :
       \E followingIndex \in DrawnIndices(fUsers) :
         /\ <<followerIndex, followingIndex>> \notin fUsed
         /\ fUsed' = fUsed \cup {<<followerIndex, followingIndex>>}
         /\ fFollowers' = fFollowers \cup {<<followerIndex, followingIndex>>}
    /\ fI' = fI + 1
    /\ UNCHANGED <<fPc, fUsers, fCount>>

\* the for loop is over: return followers
FollowersReturn ==
    /\ fPc = "draw"
    /\ fI > fCount
    /\ fPc' = "done"
    /\ UNCHANGED <<fUsers, fCount, fI, fUsed, fFollowers>>

(***************************************************************************)
(* Group Rerun: TestService.runAllTests (dynamo-queries) run twice on the  *)
(* same tables, with skipDataInsertion = false.  The tables are db; only   *)
(* the users and the posts table are read by checkIfDataExists, the other  *)
(* tables are left out.                                                    *)
(*   uPc        "idle" | "check" | "generate" | "insert" | "tests" |       *)
(*              "looping" | "failed"                                       *)
(*   uRun       the number of the run (0 before the first)                 *)
(*   uUserCount userCount                                                  *)
(*   uPostCount postCount                                                  *)
(*   uChecks    ghost, per run: "none" | "answered" | "rejected", whether  *)
(*              the store answered the requests of checkIfDataExists       *)
(*   uWrites    ghost, per run: the batchCreate calls made                 *)
(*   uLost      ghost, per run: an insert of the run lost items            *)
(***************************************************************************)
VARIABLES uPc, uRun, uUserCount, uPostCount, uChecks, uWrites, uLost

rerunVars == <<uPc, uRun, uUserCount, uPostCount, uChecks, uWrites, uLost>>

Runs == {1, 2}

RerunIdle ==
    /\ uPc = "idle"
    /\ uRun = 0
    /\ uUserCount = 0
    /\ uPostCount = 0
    /\ uChecks = [r \in Runs |-> "none"]
    /\ uWrites = [r \in Runs |-> 0]
    /\ uLost = [r \in Runs |-> FALSE]

\* runAllTests(userCount, postCount, ..., false): the first run picks the
\* counts, the second run is the same command again
RerunRunAllTests ==
    /\ uPc = "idle"
    /\ uRun < 2
    /\ uRun' = uRun + 1
    /\ IF uRun = 0
       THEN /\ project' = "social"
            /\ uUserCount' \in 0..MaxUsers
            /\ uPostCount' \in 0..MaxRerunPosts
       ELSE UNCHANGED <<project, uUserCount, uPostCount>>
    /\ uPc' = "check"
    /\ UNCHANGED <<db, relCall, stCall, uChecks, uWrites, uLost>>

\* generateRelationalPosts: userId = users[i % users.length].id, where
\* users[0] is user-00001
GeneratedPostOwner(i, userCount) == GeneratedUserId((i % userCount) + 1)

\* the users and posts of generateRelationalTestData
GeneratedUsers(userCount) ==
    {RelationalUser(GeneratedUserId(k)) : k \in 1..userCount}

GeneratedPosts(userCount, postCount) ==
    {RelationalPost(GeneratedPostId(i), GeneratedPostOwner(i, userCount)) :
        i \in 1..postCount}

\* checkIfDataExists: getUserById('user-00001') and getUserPosts(
\* 'user-00001') on the relational tables, and the branch of runAllTests
RerunCheckIfDataExists ==
    /\ uPc = "check"
    /\ \E userOut \in RelGetUserByIdOutputs("user-00001") \cup {Threw} :
       \E postOut \in RelGetUserPostsOutputs("user-00001") \cup {Threw} :
         /\ uPc' = IF HasData(MeasureOperation(userOut, 1),
                              MeasureOperation(postOut, 1))
                   THEN "tests" ELSE "generate"
         /\ uChecks' = [uChecks EXCEPT ![uRun] =
                           IF userOut.threw \/ postOut.threw
                           THEN "rejected" ELSE "answered"]
    /\ UNCHANGED <<project, db, relCall, stCall, uRun, uUserCount, uPostCount,
                   uWrites, uLost>>

\* DataGenerator.generateTestData: throws without users, never returns
\* when generateRelationalFollowers runs out of pairs, returns otherwise
RerunGenerateTestData ==
    /\ uPc = "generate"
    /\ uPc' = IF uUserCount = 0 THEN "failed"
              ELSE IF uUserCount * uUserCount < FollowerCount(uUserCount)
                   THEN "looping"
                   ELSE "insert"
    /\ UNCHANGED <<project, db, relCall, stCall, uRun, uUserCount, uPostCount,
                   uChecks, uWrites, uLost>>

\* insertTestData: INSERT_CALLS batchCreate calls; a batch the store
\* rejects or leaves unprocessed loses items and the call goes on
RerunInsertTestData ==
    /\ uPc = "insert"
    /\ \E users \in SUBSET GeneratedUsers(uUserCount) :
       \E posts \in SUBSET GeneratedPosts(uUserCount, uPostCount) :
         /\ db' = [db EXCEPT !["users-relational"] = @ \cup users,
                             !["posts-relational"] = @ \cup posts]
         /\ uLost' = [uLost EXCEPT ![uRun] =
                         \/ users # GeneratedUsers(uUserCount)
                         \/ posts # GeneratedPosts(uUserCount, uPostCount)]
    /\ uWrites' = [uWrites EXCEPT ![uRun] = INSERT_CALLS]
    /\ uPc' = "tests"
    /\ UNCHANGED <<project, relCall, stCall, uRun, uUserCount, uPostCount,
                   uChecks>>

\* the test points run and runAllTests returns
RerunTestPoints ==
    /\ uPc = "tests"
    /\ uPc' = "idle"
    /\ UNCHANGED <<project, db, relCall, stCall, uRun, uUserCount, uPostCount,
                   uChecks, uWrites, uLost>>

(***************************************************************************)
(* Group Insert: TestRunner.insertTestData(testData) (dynamo-tests) on     *)
(* tables that hold some of the generated items.  A generated item is its  *)
(* position in the list it is inserted from: testData.users,               *)
(* testData.orders, and [...singleTableUsers, ...singleTableOrders].       *)
(*   nPc         "idle" | "insert" | "inserted"                            *)
(*   nUserCount  config.userCount                                          *)
(*   nOrderCount config.orderCount                                         *)
(*   nTables     the generated items each of the tables "users", "orders"  *)
(*               and "single" holds                                        *)
(*   nExact      ghost: every item count was the number of items held      *)
(*   nLost       ghost: a batchCreate call lost its items                  *)
(***************************************************************************)
VARIABLES nPc, nUserCount, nOrderCount, nTables, nExact, nLost

insertVars == <<nPc, nUserCount, nOrderCount, nTables, nExact, nLost>>

InsertTables == {"users", "orders", "single"}

InsertIdle ==
    /\ nPc = "idle"
    /\ nUserCount = 0
    /\ nOrderCount = 0
    /\ nTables = [t \in InsertTables |-> {}]
    /\ nExact = TRUE
    /\ nLost = FALSE

\* requiredUsers, requiredOrders, requiredSingleTableItems; the lists of
\* testData have these lengths
Required(t, userCount, orderCount) ==
    CASE t = "users" -> userCount
      [] t = "orders" -> orderCount
      [] OTHER -> userCount + orderCount

\* runAllTests has generated testData for the configured counts and calls
\* insertTestData; the tables hold any of the generated items
PerfInsertTestDataCalled ==
    /\ nPc = "idle"
    /\ \E userCount \in 0..MaxGenerated, orderCount \in 0..MaxGenerated :
         /\ nUserCount' = userCount
         /\ nOrderCount' = orderCount
         /\ nTables' \in
              [InsertTables -> SUBSET (1..(userCount + orderCount))]
         /\ \A t \in InsertTables :
              nTables'[t] \subseteq 1..Required(t, userCount, orderCount)
    /\ nPc' = "insert"
    /\ UNCHANGED <<nExact, nLost>>

\* list.slice(0, toInsert) of a list of required items: its first items
SliceToInsert(held, required, toInsert) == 1..Min(toInsert, required)

\* the items handed to batchCreate for a table that holds held and was
\* counted as count: none when count >= required
ItemsToAdd(held, required, count) ==
    IF count < required
    THEN SliceToInsert(held, required, required - count)
    ELSE {}

\* insertTestData: three item counts (DescribeTable's ItemCount is
\* approximate, and 0 when the call fails), then a batchCreate per table
\* that was counted short; a batch that fails loses its items
PerfInsertTestData ==
    /\ nPc = "insert"
    /\ \E exact \in [InsertTables -> BOOLEAN], stored \in [InsertTables -> BOOLEAN] :
         /\ nTables' =
              [t \in InsertTables |->
                 LET required == Required(t, nUserCount, nOrderCount)
                     count == IF exact[t] THEN Cardinality(nTables[t]) ELSE 0
                     toAdd == ItemsToAdd(nTables[t], required, count)
                 IN  nTables[t] \cup (IF stored[t] THEN toAdd ELSE {})]
         /\ nExact' = \A t \in InsertTables : exact[t] \/ nTables[t] = {}
         /\ nLost' = \E t \in InsertTables : ~stored[t]
    /\ nPc' = "inserted"
    /\ UNCHANGED <<nUserCount, nOrderCount>>

\* the next run of the suite
PerfInsertReset ==
    /\ nPc = "inserted"
    /\ nPc' = "idle"
    /\ nUserCount' = 0
    /\ nOrderCount' = 0
    /\ nTables' = [t \in InsertTables |-> {}]
    /\ nExact' = TRUE
    /\ nLost' = FALSE

(***************************************************************************)
(* Group Order: SingleTableDAO.getOrder(userId, orderId) (dynamo-tests) on *)
(* orders that generateOrders and generateSingleTableOrders made.  Here an *)
(* order id is spelled out: "order-" followed by its decimal digits, one   *)
(* token per digit, so that begins_with sees the characters of the id.     *)
(*   oPc        "idle" | "stored" | "returned"                             *)
(*   oUserCount users.length                                               *)
(*   oStored    the orderCounter values of the generated orders looked at  *)
(*              (some of 1..count; at most one page of them)               *)
(*   oAsked     the orderCounter of the order asked for                    *)
(*   oReturned  the orderCounter values of the Items of the answer         *)
(***************************************************************************)
VARIABLES oPc, oUserCount, oStored, oAsked, oReturned

orderVars == <<oPc, oUserCount, oStored, oAsked, oReturned>>

OrderIdle ==
    /\ oPc = "idle"
    /\ oUserCount = 0
    /\ oStored = {}
    /\ oAsked = 0
    /\ oReturned = {}

\* orderCounter values: small ones and the first ones of 8 and 9 digits
OrderCounters == {1, 2, 10, 12, 10000000, 100000000}

\* padStart(8, '0')
PAD_LENGTH == 8

\* n.toString(): the decimal digits of n >= 0
RECURSIVE ToDigits(_)
ToDigits(n) ==
    LET d == <<"0", "1", "2", "3", "4", "5", "6", "7", "8", "9">>[(n % 10) + 1]
    IN  IF n < 10 THEN <<d>> ELSE ToDigits(n \div 10) \o <<d>>

\* s.padStart(length, '0'): zeros in front up to length, s itself when it
\* is as long or longer
PadStart(str, length) ==
    [k \in 1..(IF Len(str) >= length THEN 0 ELSE length - Len(str)) |-> "0"]
    \o str

\* `order-${orderCounter.toString().padStart(8, '0')}`
PaddedOrderId(orderCounter) ==
    <<"order-">> \o PadStart(ToDigits(orderCounter), PAD_LENGTH)

\* generateOrders: orderCounter = i + 1 goes to users[i % users.length]
OrderOwner(orderCounter, userCount) == ((orderCounter - 1) % userCount) + 1

\* generateSingleTableOrders: SK `ORDER#${orderId}#${date}`
OrderSK(orderCounter) ==
    <<"ORDER", "#">> \o PaddedOrderId(orderCounter) \o <<"#", "t1">>

\* generateTestData(userCount, orderCount) has run and its orders are in
\* the single table
OrdersStored ==
    /\ oPc = "idle"
    /\ oUserCount' \in 1..MaxUsers
    /\ \E S \in SUBSET OrderCounters :
         /\ Cardinality(S) \in 1..PageLimit
         /\ oStored' = S
    /\ oPc' = "stored"
    /\ UNCHANGED <<oAsked, oReturned>>

\* getOrder: 'PK = :pk AND begins_with(SK, :sk)' with :pk `USER#${userId}`
\* and :sk `ORDER#${orderId}`, for a stored order and its owner
GetOrderKey(orderCounter, userCount, askedCounter) ==
    /\ OrderOwner(orderCounter, userCount) = OrderOwner(askedCounter, userCount)
    /\ BeginsWith(OrderSK(orderCounter),
                  <<"ORDER", "#">> \o PaddedOrderId(askedCounter))

SingleTableGetOrder ==
    /\ oPc = "stored"
    /\ \E asked \in oStored :
         /\ oAsked' = asked
         /\ oReturned' = {c \in oStored : GetOrderKey(c, oUserCount, asked)}
    /\ oPc' = "returned"
    /\ UNCHANGED <<oUserCount, oStored>>

\* the next lookup
OrderReset ==
    /\ oPc = "returned"
    /\ oPc' = "idle"
    /\ oUserCount' = 0
    /\ oStored' = {}
    /\ oAsked' = 0
    /\ oReturned' = {}

(***************************************************************************)
(* Group Gsi: TestRunner.runSingleTableTests(user) (dynamo-tests), its     *)
(* tests 2 and 3: getUserOrders(userId), then getUserOrdersWithGSI(userId) *)
(* on the same table.  The first call is stCall.                           *)
(*   gsiCall  the call of getUserOrdersWithGSI                             *)
(***************************************************************************)
VARIABLES gsiCall

gsiVars == <<gsiCall>>

GsiIdle == gsiCall = NoCall

\* the single table of the orders project holds any content
GsiInit ==
    /\ project = "orders"
    /\ relCall = NoCall
    /\ stCall = NoCall
    /\ gsiCall = NoCall
    /\ \E S \in Contents("single-table-orders", OrdersUniverse) :
         db = [EmptyDb EXCEPT !["single-table-orders"] = S]

\* a faulty variant of EntityTypeIndexKey that reads every entity type
EntityTypeIndexKeyAnyType(i) == TRUE

\* getUserOrdersWithGSI: IndexName 'EntityTypeIndex',
\* KeyConditionExpression 'entityType = :entityType' with 'ORDER'
EntityTypeIndexKey(i) == i.entityType = "ORDER"

\* the index query reads a page of the ORDER items of all users, then the
\* FilterExpression 'userId = :userId' drops the other users' items
StGetUserOrdersWithGSIOutputs(userId) ==
    LET matching == {i \in db["single-table-orders"] : EntityTypeIndexKey(i)}
    IN  {PageOutput(page, {i \in page : UserIdFilter(i, userId)}) :
            page \in Pages(matching)}

\* test 3 of runSingleTableTests, for the user of test 2
StGetUserOrdersWithGSI ==
    /\ project = "orders"
    /\ stCall.op = "getUserOrders"
    /\ gsiCall = NoCall
    /\ \E out \in StGetUserOrdersWithGSIOutputs(stCall.arg) \cup {Threw} :
         gsiCall' = Called("getUserOrdersWithGSI", stCall.arg, out,
                           PerfMeasureOperation(out, 1))
    /\ UNCHANGED <<project, db, relCall, stCall>>

\* runSingleTableTests returns its results; the next user is tested
RunSingleTableTestsReturns ==
    /\ gsiCall # NoCall
    /\ gsiCall' = NoCall
    /\ stCall' = NoCall
    /\ UNCHANGED <<project, db, relCall>>

\* the groups added after the screen data
tailVars ==
    <<againVars, followVars, rerunVars, insertVars, orderVars, gsiVars>>

TailIdle ==
    /\ AgainIdle /\ FollowIdle /\ RerunIdle /\ InsertIdle /\ OrderIdle
    /\ GsiIdle

\* the groups after Clear and Write
lastVars == <<runnerVars, parVars, screenVars, tailVars>>

LastIdle == RunnerIdle /\ ParIdle /\ ScreenIdle /\ TailIdle

\* the groups that the specifications above them leave idle
moreVars == <<clearVars, writeVars, lastVars>>

MoreIdle == ClearIdle /\ WriteIdle /\ LastIdle

vars == <<batchVars, readVars, runVars, clientVars, genVars, moreVars>>

SpecBatchInit == BatchIdle /\ ReadIdle /\ RunIdle /\ ClientIdle /\ GenIdle
    /\ MoreIdle

SpecBatchNext ==
    \/ BatchStart /\ UNCHANGED <<readVars, runVars, clientVars, genVars, moreVars>>
    \/ BatchSendAnswered /\ UNCHANGED <<readVars, runVars, clientVars, genVars, moreVars>>
    \/ BatchSendThrows /\ UNCHANGED <<readVars, runVars, clientVars, genVars, moreVars>>
    \/ BatchFinish /\ UNCHANGED <<readVars, runVars, clientVars, genVars, moreVars>>
    \/ BatchReset /\ UNCHANGED <<readVars, runVars, clientVars, genVars, moreVars>>

SpecBatch == SpecBatchInit /\ [][SpecBatchNext]_vars

SpecReadInit == ReadInit /\ BatchIdle /\ RunIdle /\ ClientIdle /\ GenIdle
    /\ MoreIdle

SpecReadNext ==
    \/ StGetUserPosts /\ UNCHANGED <<batchVars, runVars, clientVars, genVars, moreVars>>
    \/ StGetUserById /\ UNCHANGED <<batchVars, runVars, clientVars, genVars, moreVars>>
    \/ StGetAllPosts /\ UNCHANGED <<batchVars, runVars, clientVars, genVars, moreVars>>
    \/ RelGetUserPosts /\ UNCHANGED <<batchVars, runVars, clientVars, genVars, moreVars>>
    \/ RelGetUserById /\ UNCHANGED <<batchVars, runVars, clientVars, genVars, moreVars>>
    \/ RelGetAllPosts /\ UNCHANGED <<batchVars, runVars, clientVars, genVars, moreVars>>
    \/ RelGetAllUserComments /\ UNCHANGED <<batchVars, runVars, clientVars, genVars, moreVars>>
    \/ StGetAllUserComments /\ UNCHANGED <<batchVars, runVars, clientVars, genVars, moreVars>>
    \/ StGetUserOrders /\ UNCHANGED <<batchVars, runVars, clientVars, genVars, moreVars>>
    \/ StGetAllOrders /\ UNCHANGED <<batchVars, runVars, clientVars, genVars, moreVars>>
    \/ StGetAllUserOrderItems /\ UNCHANGED <<batchVars, runVars, clientVars, genVars, moreVars>>
    \/ RelGetUserOrders /\ UNCHANGED <<batchVars, runVars, clientVars, genVars, moreVars>>
    \/ PrintComparison /\ UNCHANGED <<batchVars, runVars, clientVars, genVars, moreVars>>

SpecRead == SpecReadInit /\ [][SpecReadNext]_vars

SpecRunInit == RunIdle /\ BatchIdle /\ ReadIdle /\ ClientIdle /\ GenIdle
    /\ MoreIdle

SpecRunNext ==
    \/ RunAllTests /\ UNCHANGED <<batchVars, readVars, clientVars, genVars, moreVars>>
    \/ CheckIfDataExistsUser /\ UNCHANGED <<batchVars, readVars, clientVars, genVars, moreVars>>
    \/ CheckIfDataExistsPosts /\ UNCHANGED <<batchVars, readVars, clientVars, genVars, moreVars>>
    \/ GenerateTestData /\ UNCHANGED <<batchVars, readVars, clientVars, genVars, moreVars>>
    \/ GenerateTestDataThrows /\ UNCHANGED <<batchVars, readVars, clientVars, genVars, moreVars>>
    \/ GenerateTestDataLoops /\ UNCHANGED <<batchVars, readVars, clientVars, genVars, moreVars>>
    \/ InsertTestData /\ UNCHANGED <<batchVars, readVars, clientVars, genVars, moreVars>>
    \/ TestPointRelational /\ UNCHANGED <<batchVars, readVars, clientVars, genVars, moreVars>>
    \/ TestPointSingleTable /\ UNCHANGED <<batchVars, readVars, clientVars, genVars, moreVars>>
    \/ TestPointReturns /\ UNCHANGED <<batchVars, readVars, clientVars, genVars, moreVars>>

SpecRun == SpecRunInit /\ [][SpecRunNext]_vars

SpecClientInit == ClientInit /\ BatchIdle /\ ReadIdle /\ RunIdle /\ GenIdle
    /\ MoreIdle

SpecClientNext ==
    \/ OperationStarts /\ UNCHANGED <<batchVars, readVars, runVars, genVars, moreVars>>
    \/ ClientSend /\ UNCHANGED <<batchVars, readVars, runVars, genVars, moreVars>>
    \/ StoreAnswers /\ UNCHANGED <<batchVars, readVars, runVars, genVars, moreVars>>
    \/ ClientRetries /\ UNCHANGED <<batchVars, readVars, runVars, genVars, moreVars>>
    \/ ClientThrows /\ UNCHANGED <<batchVars, readVars, runVars, genVars, moreVars>>

SpecClient == SpecClientInit /\ [][SpecClientNext]_vars

SpecGenInit == GenIdle /\ BatchIdle /\ ReadIdle /\ RunIdle /\ ClientIdle
    /\ MoreIdle

SpecGenNext ==
    \/ GenerateTestDataCalled
         /\ UNCHANGED <<batchVars, readVars, runVars, clientVars, moreVars>>
    \/ GenerateRelationalPosts
         /\ UNCHANGED <<batchVars, readVars, runVars, clientVars, moreVars>>
    \/ GenerateRelationalComments
         /\ UNCHANGED <<batchVars, readVars, runVars, clientVars, moreVars>>
    \/ GenerateRelationalTestData
         /\ UNCHANGED <<batchVars, readVars, runVars, clientVars, moreVars>>
    \/ GenerateOrders /\ UNCHANGED <<batchVars, readVars, runVars, clientVars, moreVars>>
    \/ GenerateSingleTableData
         /\ UNCHANGED <<batchVars, readVars, runVars, clientVars, moreVars>>

SpecGen == SpecGenInit /\ [][SpecGenNext]_vars

\* the groups of the specifications above
firstVars == <<batchVars, readVars, runVars, clientVars, genVars>>

FirstIdle == BatchIdle /\ ReadIdle /\ RunIdle /\ ClientIdle /\ GenIdle

SpecClearInit == ClearIdle /\ FirstIdle /\ WriteIdle /\ LastIdle

SpecClearNext ==
    \/ ClearAllData /\ UNCHANGED <<firstVars, writeVars, lastVars>>
    \/ ClearScan /\ UNCHANGED <<firstVars, writeVars, lastVars>>
    \/ ClearScanThrows /\ UNCHANGED <<firstVars, writeVars, lastVars>>
    \/ ClearDeleteAnswered /\ UNCHANGED <<firstVars, writeVars, lastVars>>
    \/ ClearDeleteThrows /\ UNCHANGED <<firstVars, writeVars, lastVars>>
    \/ ClearTableReturns /\ UNCHANGED <<firstVars, writeVars, lastVars>>
    \/ ClearAllDataReturns /\ UNCHANGED <<firstVars, writeVars, lastVars>>

SpecClear == SpecClearInit /\ [][SpecClearNext]_vars

\* the three paths that send batched writes, one call at a time: the
\* program awaits each call before it makes the next
NoWriteCall == bPc = "idle" /\ wPc = "idle" /\ clPc = "idle"

WriteRest == <<readVars, runVars, clientVars, genVars>>

SpecChunkInit == FirstIdle /\ MoreIdle

SpecChunkNext ==
    \/ NoWriteCall /\ BatchStart /\ UNCHANGED <<WriteRest, moreVars>>
    \/ BatchSendAnswered /\ UNCHANGED <<WriteRest, moreVars>>
    \/ BatchSendThrows /\ UNCHANGED <<WriteRest, moreVars>>
    \/ BatchFinish /\ UNCHANGED <<WriteRest, moreVars>>
    \/ BatchReset /\ UNCHANGED <<WriteRest, moreVars>>
    \/ NoWriteCall /\ PerfBatchWrite /\ UNCHANGED <<firstVars, clearVars, lastVars>>
    \/ PerfBatchSend /\ UNCHANGED <<firstVars, clearVars, lastVars>>
    \/ PerfBatchThrows /\ UNCHANGED <<firstVars, clearVars, lastVars>>
    \/ PerfBatchReturns /\ UNCHANGED <<firstVars, clearVars, lastVars>>
    \/ PerfBatchReset /\ UNCHANGED <<firstVars, clearVars, lastVars>>
    \/ NoWriteCall /\ ClearAllData /\ UNCHANGED <<firstVars, writeVars, lastVars>>
    \/ ClearScan /\ UNCHANGED <<firstVars, writeVars, lastVars>>
    \/ ClearScanThrows /\ UNCHANGED <<firstVars, writeVars, lastVars>>
    \/ ClearDeleteAnswered /\ UNCHANGED <<firstVars, writeVars, lastVars>>
    \/ ClearDeleteThrows /\ UNCHANGED <<firstVars, writeVars, lastVars>>
    \/ ClearTableReturns /\ UNCHANGED <<firstVars, writeVars, lastVars>>
    \/ ClearAllDataReturns /\ UNCHANGED <<firstVars, writeVars, lastVars>>

SpecChunk == SpecChunkInit /\ [][SpecChunkNext]_vars

SpecRunnerInit == FirstIdle /\ MoreIdle

SpecRunnerNext ==
    \/ TestRunnerRunAllTests /\ UNCHANGED <<firstVars, clearVars, writeVars, parVars, screenVars, tailVars>>
    \/ TestRunnerRunReportOnly /\ UNCHANGED <<firstVars, clearVars, writeVars, parVars, screenVars, tailVars>>
    \/ TestRunnerInsertTestData /\ UNCHANGED <<firstVars, clearVars, writeVars, parVars, screenVars, tailVars>>
    \/ TestRunnerTestsUser /\ UNCHANGED <<firstVars, clearVars, writeVars, parVars, screenVars, tailVars>>
    \/ TestRunnerRelationalDone /\ UNCHANGED <<firstVars, clearVars, writeVars, parVars, screenVars, tailVars>>
    \/ TestRunnerSingleTableDone /\ UNCHANGED <<firstVars, clearVars, writeVars, parVars, screenVars, tailVars>>
    \/ TestRunnerGenerateReport /\ UNCHANGED <<firstVars, clearVars, writeVars, parVars, screenVars, tailVars>>

SpecRunner == SpecRunnerInit /\ [][SpecRunnerNext]_vars

SpecParInit == FirstIdle /\ MoreIdle

SpecParNext ==
    \/ ParallelCall /\ UNCHANGED <<firstVars, clearVars, writeVars, runnerVars, screenVars, tailVars>>
    \/ ShardFulfils /\ UNCHANGED <<firstVars, clearVars, writeVars, runnerVars, screenVars, tailVars>>
    \/ ShardRejects /\ UNCHANGED <<firstVars, clearVars, writeVars, runnerVars, screenVars, tailVars>>

SpecPar == SpecParInit /\ [][SpecParNext]_vars

\* the groups that the screen data leaves idle
ScreenRest ==
    <<batchVars, runVars, clientVars, genVars, clearVars, writeVars, runnerVars,
      parVars, tailVars>>

SpecScreenInit ==
    /\ ScreenInit
    /\ BatchIdle /\ RunIdle /\ ClientIdle /\ GenIdle
    /\ ClearIdle /\ WriteIdle /\ RunnerIdle /\ ParIdle /\ TailIdle

SpecScreenNext ==
    \/ RelScreenCall /\ UNCHANGED <<ScreenRest, readVars>>
    \/ RelScreenSend /\ UNCHANGED <<ScreenRest, readVars>>
    \/ RelScreenAnswer /\ UNCHANGED <<ScreenRest, readVars>>
    \/ RelScreenThrows /\ UNCHANGED <<ScreenRest, readVars>>
    \/ StGetUserScreenData /\ UNCHANGED ScreenRest
    \/ ScreenComparison /\ UNCHANGED ScreenRest

SpecScreen == SpecScreenInit /\ [][SpecScreenNext]_vars

\* the groups that the calls on one table leave idle
AgainRest ==
    <<batchVars, runVars, clientVars, genVars, clearVars, writeVars, runnerVars,
      parVars, screenVars, followVars, rerunVars, insertVars, orderVars,
      gsiVars>>

SpecAgainInit ==
    /\ AgainInit
    /\ BatchIdle /\ RunIdle /\ ClientIdle /\ GenIdle
    /\ ClearIdle /\ WriteIdle /\ RunnerIdle /\ ParIdle /\ ScreenIdle
    /\ FollowIdle /\ RerunIdle /\ InsertIdle /\ OrderIdle /\ GsiIdle

SpecAgainNext ==
    \/ AgainGetUserById /\ UNCHANGED AgainRest
    \/ AgainCreateUser /\ UNCHANGED AgainRest

SpecAgain == SpecAgainInit /\ [][SpecAgainNext]_vars

\* the groups before the added ones
headVars == <<firstVars, clearVars, writeVars, runnerVars, parVars, screenVars>>

HeadIdle ==
    FirstIdle /\ ClearIdle /\ WriteIdle /\ RunnerIdle /\ ParIdle /\ ScreenIdle

SpecFollowInit == HeadIdle /\ TailIdle

SpecFollowNext ==
    \/ GenerateRelationalFollowers /\ UNCHANGED <<headVars, againVars, rerunVars, insertVars, orderVars, gsiVars>>
    \/ FollowersDrawThrows /\ UNCHANGED <<headVars, againVars, rerunVars, insertVars, orderVars, gsiVars>>
    \/ FollowersDrawAgain /\ UNCHANGED <<headVars, againVars, rerunVars, insertVars, orderVars, gsiVars>>
    \/ FollowersDrawExits /\ UNCHANGED <<headVars, againVars, rerunVars, insertVars, orderVars, gsiVars>>
    \/ FollowersReturn /\ UNCHANGED <<headVars, againVars, rerunVars, insertVars, orderVars, gsiVars>>

SpecFollow == SpecFollowInit /\ [][SpecFollowNext]_vars

\* the groups that the repeated run leaves idle
RerunRest ==
    <<batchVars, runVars, clientVars, genVars, clearVars, writeVars, runnerVars,
      parVars, screenVars, againVars, followVars, insertVars, orderVars,
      gsiVars>>

SpecRerunInit == HeadIdle /\ TailIdle

SpecRerunNext ==
    \/ RerunRunAllTests /\ UNCHANGED RerunRest
    \/ RerunCheckIfDataExists /\ UNCHANGED RerunRest
    \/ RerunGenerateTestData /\ UNCHANGED RerunRest
    \/ RerunInsertTestData /\ UNCHANGED RerunRest
    \/ RerunTestPoints /\ UNCHANGED RerunRest

SpecRerun == SpecRerunInit /\ [][SpecRerunNext]_vars

SpecInsertInit == HeadIdle /\ TailIdle

SpecInsertNext ==
    \/ PerfInsertTestDataCalled
         /\ UNCHANGED <<headVars, againVars, followVars, rerunVars, orderVars,
                        gsiVars>>
    \/ PerfInsertTestData
         /\ UNCHANGED <<headVars, againVars, followVars, rerunVars, orderVars,
                        gsiVars>>
    \/ PerfInsertReset
         /\ UNCHANGED <<headVars, againVars, followVars, rerunVars, orderVars,
                        gsiVars>>

SpecInsert == SpecInsertInit /\ [][SpecInsertNext]_vars

\* the added groups that the order lookup leaves idle
OrderRest == <<againVars, followVars, rerunVars, insertVars, gsiVars>>

SpecOrderInit == HeadIdle /\ TailIdle

SpecOrderNext ==
    \/ OrdersStored /\ UNCHANGED <<headVars, OrderRest>>
    \/ SingleTableGetOrder /\ UNCHANGED <<headVars, OrderRest>>
    \/ OrderReset /\ UNCHANGED <<headVars, OrderRest>>

SpecOrder == SpecOrderInit /\ [][SpecOrderNext]_vars

\* the groups that the two order reads leave idle
GsiRest ==
    <<batchVars, runVars, clientVars, genVars, clearVars, writeVars, runnerVars,
      parVars, screenVars, againVars, followVars, rerunVars, insertVars,
      orderVars>>

SpecGsiInit ==
    /\ GsiInit
    /\ BatchIdle /\ RunIdle /\ ClientIdle /\ GenIdle
    /\ ClearIdle /\ WriteIdle /\ RunnerIdle /\ ParIdle /\ ScreenIdle
    /\ AgainIdle /\ FollowIdle /\ RerunIdle /\ InsertIdle /\ OrderIdle

SpecGsiNext ==
    \/ StGetUserOrders /\ UNCHANGED <<GsiRest, gsiVars>>
    \/ StGetUserOrdersWithGSI /\ UNCHANGED GsiRest
    \/ RunSingleTableTestsReturns /\ UNCHANGED GsiRest

SpecGsi == SpecGsiInit /\ [][SpecGsiNext]_vars


(***************************************************************************)
(* C1: when the store answers every request of a batch insert of N items   *)
(* and reports K of them unprocessed in total, the count reported as       *)
(* inserted (Count of the summary, itemCount of the TestResult) is N - K.  *)
(***************************************************************************)
C1_InsertedIsNMinusK ==
    (bPc = "done" /\ ~bThrown) =>
        /\ bSuccessful = bN - bUnprocessed
        /\ bResult.itemCount = bN - bUnprocessed

(***************************************************************************)
(* What a call returned, and what the tables hold.                         *)
(***************************************************************************)
Returned(call) == Range(call.out.Items)

Answered(call, op) == call.op = op /\ ~call.out.threw

StoredPosts == {i \in db["single-table-social"] : i.entityType = "POST"}

(***************************************************************************)
(* C2: every get-children-of-parent operation called with P (single-table  *)
(* getUserPosts and getAllUserOrderItems, relational getUserPosts) returns *)
(* only items whose stored parent association (userId) is P.               *)
(***************************************************************************)
C2_OnlyChildrenOfParent ==
    /\ Answered(stCall, "getUserPosts") =>
         \A i \in Returned(stCall) : i.userId = <<stCall.arg>>
    /\ Answered(stCall, "getAllUserOrderItems") =>
         \A i \in Returned(stCall) : i.userId = <<stCall.arg>>
    /\ Answered(relCall, "getUserPosts") =>
         \A i \in Returned(relCall) : i.userId = <<relCall.arg>>

(***************************************************************************)
(* C3 as stated: for every table content getAllPosts returns exactly the   *)
(* stored POST items, in both designs.                                     *)
(***************************************************************************)
C3_AllPostsEveryContent ==
    /\ Answered(stCall, "getAllPosts") => Returned(stCall) = StoredPosts
    /\ Answered(relCall, "getAllPosts") =>
         Returned(relCall) = db["posts-relational"]

(***************************************************************************)
(* C3, amended: getAllPosts returns only stored POST items, each once, as  *)
(* many as one response page holds; it returns exactly the stored POST     *)
(* items when they fit in one page.                                        *)
(***************************************************************************)
C3_AllPostsOfOnePage ==
    /\ Answered(stCall, "getAllPosts") =>
         /\ Returned(stCall) \subseteq StoredPosts
         /\ Len(stCall.out.Items) = Min(PageLimit, Cardinality(StoredPosts))
         /\ Cardinality(Returned(stCall)) = Len(stCall.out.Items)
         /\ stCall.result.success
         /\ stCall.result.itemCount = Len(stCall.out.Items)
    /\ Answered(relCall, "getAllPosts") =>
         /\ Returned(relCall) \subseteq db["posts-relational"]
         /\ Len(relCall.out.Items) =
              Min(PageLimit, Cardinality(db["posts-relational"]))
         /\ Cardinality(Returned(relCall)) = Len(relCall.out.Items)
         /\ relCall.result.success
         /\ relCall.result.itemCount = Len(relCall.out.Items)

\* the single table holds the posts of both users beside users and comments
\* and getAllPosts returned all of them
C3_Witness ==
    /\ Answered(stCall, "getAllPosts")
    /\ Cardinality(StoredPosts) = PageLimit
    /\ StoredPosts # db["single-table-social"]
    /\ Cardinality({i.userId : i \in StoredPosts}) = 2
    /\ Returned(stCall) = StoredPosts

(***************************************************************************)
(* C4 as stated: single-table getUserOrders(P) returns exactly the items   *)
(* with partition key 'USER#'+P and a sort key beginning 'ORDER#'.         *)
(***************************************************************************)
OrdersOf(userId) ==
    {i \in db["single-table-orders"] :
        /\ i.PK = <<"USER", "#", userId>>
        /\ Len(i.SK) >= 2 /\ i.SK[1] = "ORDER" /\ i.SK[2] = "#"}

C4_ExactlyTheOrders ==
    Answered(stCall, "getUserOrders") =>
        Returned(stCall) = OrdersOf(stCall.arg)

(***************************************************************************)
(* C4, amended: getUserOrders(P) returns only such items, the first of     *)
(* them in sort-key order, as many as one response page holds; it returns  *)
(* exactly such items when they fit in one page, as three orders do.       *)
(***************************************************************************)
C4_TheOrdersOfOnePage ==
    Answered(stCall, "getUserOrders") =>
        /\ Returned(stCall) \subseteq OrdersOf(stCall.arg)
        /\ Len(stCall.out.Items) =
             Min(PageLimit, Cardinality(OrdersOf(stCall.arg)))
        /\ Cardinality(Returned(stCall)) = Len(stCall.out.Items)
        /\ \A i \in Returned(stCall) :
             \A j \in OrdersOf(stCall.arg) \ Returned(stCall) : ItemLess(i, j)
        /\ stCall.result.success
        /\ stCall.result.recordCount = Len(stCall.out.Items)

\* user-00001 and three orders of it: the call returned exactly those three
C4_Witness ==
    /\ Answered(stCall, "getUserOrders")
    /\ stCall.arg = "user-00001"
    /\ Cardinality(OrdersOf("user-00001")) = 3
    /\ SingleTableOrderUser("user-00001") \in db["single-table-orders"]
    /\ Returned(stCall) = OrdersOf("user-00001")
    /\ stCall.result.recordCount = 3

(***************************************************************************)
(* C7: a get-by-id operation (single-table getUserById with key PK = SK =  *)
(* 'USER#'+id, relational getUserById) returns at most one item, the user  *)
(* stored under the id, and when no stored item has the id the call        *)
(* completes with success = true and no error.                             *)
(***************************************************************************)
StoredUsers(userId) ==
    {i \in db["single-table-social"] :
        i.entityType = "USER" /\ i.id = <<userId>>}

C7_GetByIdAtMostOne ==
    /\ Answered(stCall, "getUserById") =>
         /\ Len(stCall.out.Item) <= 1 /\ stCall.out.Items = <<>>
         /\ Range(stCall.out.Item) = StoredUsers(stCall.arg)
         /\ stCall.result.success /\ stCall.result.error = "none"
    /\ Answered(relCall, "getUserById") =>
         /\ Len(relCall.out.Item) <= 1 /\ relCall.out.Items = <<>>
         /\ Range(relCall.out.Item) =
              {i \in db["users-relational"] : i.id = <<relCall.arg>>}
         /\ relCall.result.success /\ relCall.result.error = "none"

\* the single table holds posts of the user and another user, not the user:
\* getUserById found nothing and succeeded
C7_Witness ==
    /\ Answered(stCall, "getUserById")
    /\ StoredUsers(stCall.arg) = {}
    /\ \E i \in db["single-table-social"] :
         i.entityType = "POST" /\ i.userId = <<stCall.arg>>
    /\ \E i \in db["single-table-social"] : i.entityType = "USER"
    /\ stCall.out.Item = <<>>
    /\ stCall.result.success

(***************************************************************************)
(* C8: for a parent with zero children every get-children-of-parent        *)
(* operation (single-table getUserPosts, relational getUserPosts,          *)
(* relational getAllUserComments, whose children are the comments on the   *)
(* user's posts) that the store answers returns an empty collection with   *)
(* success = true and itemCount 0, never an error.                         *)
(***************************************************************************)
PostsOfUser(userId) ==
    {i \in db["posts-relational"] : i.userId = <<userId>>}

CommentsOnPostsOf(userId) ==
    {c \in db["comments-relational"] :
        \E p \in PostsOfUser(userId) : c.postId = p.postId}

EmptySuccess(call) ==
    /\ call.out.Items = <<>>
    /\ call.result.success
    /\ call.result.itemCount = 0
    /\ call.result.error = "none"

OrderIdsOf(call) == {i.id : i \in Returned(call)}

SameResultSet ==
    /\ Answered(relCall, "getUserOrders")
    /\ Answered(stCall, "getUserOrders")
    /\ relCall.arg = stCall.arg
    /\ OrderIdsOf(relCall) = OrderIdsOf(stCall)

TestPointNames == [k \in DOMAIN TestPoints |-> TestPoints[k].name]

C6_OneAttemptPerRequest ==
    \A k \in DOMAIN cSent : cSent[k] \in {1, -1}

(***************************************************************************)
(* C10: in the single-table data the generators produce, for any counts,   *)
(* no two items, of the same or of different entity types, share the same  *)
(* (PK, SK).                                                               *)
(***************************************************************************)
C10_UniqueKeys ==
    gPc = "mapped" =>
        \A j, k \in DOMAIN gItems :
            j # k => <<gItems[j].PK, gItems[j].SK>> # <<gItems[k].PK, gItems[k].SK>>

\* the comments of the single table that user userId wrote
CommentsAuthoredBy(userId) ==
    {i \in db["single-table-social"] :
        i.entityType = "COMMENT" /\ i.userId = <<userId>>}

(***************************************************************************)
(* C11: for data written by the generator, single-table                    *)
(* getAllUserComments(U), which queries GSI1PK = 'USER_COMMENTS#'+U,       *)
(* returns exactly the comments authored by user U.                        *)
(***************************************************************************)
C11_ReturnsAuthoredComments ==
    Answered(stCall, "getAllUserComments") =>
        Range(stCall.out.Items) = CommentsAuthoredBy(stCall.arg)

(***************************************************************************)
(* C12: after clearAllData completes without throwing, every table (the    *)
(* six relational tables and the single table) contains no items, whatever *)
(* each table held before and whatever the store reports back for the scan *)
(* and the batched deletes.                                                *)
(***************************************************************************)
C12_ClearedMeansEmpty ==
    clPc = "done" => \A t \in DOMAIN ClearTableNames : clTables[t] = 0

\* the requests sent so far for a list of n items are chunks taken in order:
\* each carries 1..25 items, starts where the one before it ended, and is
\* full unless it ends the list
ChunksInOrder(requests, n) ==
    \A k \in DOMAIN requests :
        LET first == requests[k][1]
            last == requests[k][2]
        IN  /\ last - first + 1 \in 1..BATCH_SIZE
            /\ first = IF k = 1 THEN 1 ELSE requests[k - 1][2] + 1
            /\ last <= n
            /\ last - first + 1 = BATCH_SIZE \/ last = n

\* the requests reach the end of the list of n items
CoversList(requests, n) ==
    IF n = 0 THEN requests = <<>>
    ELSE requests # <<>> /\ requests[Len(requests)][2] = n

C13_NoCredentialsNoMeasurement ==
    ~tCredentials => tMeasured = 0 /\ tRecorded = 0

\* the requests of the fan-out that have not settled
InFlightShards == {s \in ShardIds : pShard[s].state = "pending"}

(***************************************************************************)
(* C15: in getAllOrdersByDateRangeParallel, if any one of the concurrent   *)
(* shard queries fails, the whole call yields a single failed measurement  *)
(* (success=false, itemCount 0) containing no partially merged results,    *)
(* and the shard requests still in flight are not cancelled: every request *)
(* sent stays pending until the store settles it.                          *)
(***************************************************************************)
C15_ShardFailureFailsTheCall ==
    (\E s \in ShardIds : pShard[s].state = "rejected") =>
        /\ pPc = "done"
        /\ pResult = [success |-> FALSE, itemCount |-> 0, error |-> "error",
                      readCapacityUnits |-> NoCapacity]
        /\ pCombined = <<>>
        /\ Len(pSent) = MaxShards
        /\ InFlightShards = ShardIds \ Range(pArrival)

\* a shard answered, then a shard failed and the call returned its failed
\* measurement; after that another answer arrived, and a request is still
\* in flight
C15_Witness ==
    /\ pPc = "done"
    /\ ~pResult.success
    /\ Len(pArrival) = 3
    /\ pShard[pArrival[1]].state = "fulfilled"
    /\ pShard[pArrival[1]].n > 0
    /\ pShard[pArrival[2]].state = "rejected"
    /\ pShard[pArrival[3]].state = "fulfilled"
    /\ InFlightShards # {}

\* the number of items the shards before s answered with
RECURSIVE ItemsBefore(_)
ItemsBefore(s) == IF s = 1 THEN 0 ELSE ItemsBefore(s - 1) + pShard[s - 1].n

(***************************************************************************)
(* C16: getAllOrdersByDateRangeParallel issues exactly one query for each  *)
(* shard id with partition value 'ORDER#'+shardId, and when all succeed    *)
(* its merged Items and Count equal the concatenation and the sum of what  *)
(* separate getAllOrdersByDateRange(shardId, ...) calls return, in shard   *)
(* order, independent of the order in which the shard responses arrive.    *)
(***************************************************************************)
C16_MergedInShardOrder ==
    /\ pPc # "idle" =>
         /\ Len(pSent) = MaxShards
         /\ \A s \in ShardIds : pSent[s] = <<"ORDER", "#", s>>
    /\ pPc = "done" /\ pResult.success =>
         LET merged == pCombined[1]
             total == ItemsBefore(MaxShards + 1)
         IN  /\ Len(merged.Items) = total
             /\ \A s \in ShardIds : \A k \in 1..pShard[s].n :
                  merged.Items[ItemsBefore(s) + k] = ShardOutput(s, pShard[s].n).Items[k]
             /\ merged.Count = total
             /\ pResult.itemCount = total

\* every shard answered, a later shard with orders before an earlier one
C16_Witness ==
    /\ pPc = "done"
    /\ pResult.success
    /\ \E i, j \in DOMAIN pArrival :
         /\ i < j
         /\ pArrival[i] > pArrival[j]
         /\ pShard[pArrival[i]].n > 0
         /\ pShard[pArrival[j]].n > 0

\* the requests of the relational screen data for a user with p posts, in
\* the order the claim gives them
RECURSIVE Repeated(_, _)
Repeated(kind, p) == IF p = 0 THEN <<>> ELSE <<kind>> \o Repeated(kind, p - 1)

ScreenRequests(p) ==
    <<"user", "posts">> \o Repeated("comments", p) \o <<"followers">>
    \o Repeated("likes", p)

\* the relational screen data sends its requests one after another, in the
\* order user, posts, comments per post, followers, likes per post
C17_SequentialRequests ==
    /\ sAwait => sSent # <<>> /\ sSent[Len(sSent)] = sPc
    /\ sPc = "done" /\ sResult.success =>
         /\ sSent = ScreenRequests(sPosts)
         /\ Len(sSent) = 2 * sPosts + 3

(***************************************************************************)
(* C17: relational getUserScreenData for a user with P posts sends its     *)
(* requests strictly one after another: 1 user lookup, 1 posts query, then *)
(* one comments query per post, 1 followers query, then one likes query    *)
(* per post (2P+3 requests in total), and the requestCount it reports      *)
(* equals the number of requests actually sent.                            *)
(***************************************************************************)
C17_RequestCountIsRequestsSent ==
    /\ C17_SequentialRequests
    /\ sPc = "done" /\ sResult.success => sReported = Len(sSent)

\* the four lists of the object the single-table screen data returned
ScreenLists == <<stCall.out.posts, stCall.out.comments, stCall.out.followers,
                 stCall.out.likes>>

ScreenTypes == <<"POST", "COMMENT", "FOLLOWER", "LIKE">>

\* the number of places at which item i stands in list q
Occurrences(q, i) == Cardinality({k \in DOMAIN q : q[k] = i})

ItemsReturned(call) ==
    IF call.out.hasItems THEN Len(call.out.Items) ELSE Len(call.out.Item)

\* the calls measured by measureOperation of the dynamo-queries base DAO (the
\* others are those of the performance suite, whose itemCount is the count
\* asked for)
MeasuredCalls ==
    {relCall}
    \cup (IF stCall.op \in {"getUserOrders", "getAllOrders"} THEN {} ELSE {stCall})

(***************************************************************************)
(* C19: for every successful operation, the itemCount of the returned      *)
(* TestResult equals the actual number of items the store returned for     *)
(* that operation, not the requested or expected count; in particular a    *)
(* point lookup that finds no item reports itemCount 0.                    *)
(***************************************************************************)
C19_ItemCountIsItemsReturned ==
    \A call \in MeasuredCalls :
        call.op # "none" /\ call.result.success =>
            call.result.itemCount = ItemsReturned(call)

\* the ORDER items stored in the single table of the performance suite
StoredOrders == {i \in db["single-table-orders"] : i.entityType = "ORDER"}

(***************************************************************************)
(* C20: SingleTableDAO.getAllOrders of the performance test suite returns  *)
(* all ORDER items stored in the single table, across all users, through   *)
(* the entity-type index, not only the orders of one user.                 *)
(***************************************************************************)
C20_AllOrdersOfAllUsers ==
    Answered(stCall, "getAllOrders") => Returned(stCall) = StoredOrders

(***************************************************************************)
(* C21: two getUserById requests for the same identifier that the store    *)
(* both answers, with no createUser call between them, return the same     *)
(* item, or both none; and no getUserById request changes the content of   *)
(* any table.                                                              *)
(***************************************************************************)
NoWriteBetween(i, j) ==
    \A k \in (i + 1)..(j - 1) : aHist[k].op # "createUser"

AnsweredGets(i, j) ==
    /\ i < j
    /\ aHist[i].op = "getUserById" /\ aHist[j].op = "getUserById"
    /\ aHist[i].arg = aHist[j].arg
    /\ ~aHist[i].out.threw /\ ~aHist[j].out.threw
    /\ NoWriteBetween(i, j)

C22_AllFailedStillReports ==
    (tPc \in {"done", "failed"} /\ tRecorded > 0 /\ tFailed = tRecorded)
        => (tPc = "done" /\ tFiles = {"test-results.json", "results.md"})

\* a run with a successful result writes both files and completes
C22_SomeSuccessReports ==
    (tPc \in {"done", "failed"} /\ tFailed < tRecorded)
        => (tPc = "done" /\ tFiles = {"test-results.json", "results.md"})

\* the single-table items that the relational posts and comments returned
\* by generateTestData map to: same id, same owner and post, same createdAt
CounterpartsOfRelational ==
    {SingleTablePost(gRelational.posts[k]) : k \in DOMAIN gRelational.posts}
    \cup {SingleTableComment(gRelational.comments[k]) :
              k \in DOMAIN gRelational.comments}

(***************************************************************************)
(* C23: both designs are loaded with the same logical data: after          *)
(* generateTestData, each relational post and comment has a single-table   *)
(* item with the same id, owner, post and createdAt, and each single-table *)
(* post and comment item has such a relational counterpart.                *)
(***************************************************************************)
C23_SameLogicalData ==
    (gPc = "mapped" /\ gProject = "social")
        => CounterpartsOfRelational
             = {i \in Range(gItems) : i.entityType \in {"POST", "COMMENT"}}

\* the ids and owners alone do agree
C23_SameIdsAndOwners ==
    (gPc = "mapped" /\ gProject = "social")
        => {<<i.id, i.userId, i.postId>> : i \in CounterpartsOfRelational}
             = {<<i.id, i.userId, i.postId>> :
                   i \in {j \in Range(gItems) :
                             j.entityType \in {"POST", "COMMENT"}}}

(***************************************************************************)
(* C24: generateRelationalFollowers terminates for every userCount >= 1    *)
(* when asked for max(2*userCount, 10) followers: while the loop draws,    *)
(* some draw of follower and following user is a not-yet-used relationship,*)
(* so that a fair random choice eventually exits the loop.                 *)
(***************************************************************************)
C24_SomeDrawExitsTheLoop ==
    (fPc = "draw" /\ fI <= fCount /\ fUsers >= 1)
        => \E followerIndex, followingIndex \in DrawnIndices(fUsers) :
              <<followerIndex, followingIndex>> \notin fUsed

\* with four users or more the loop can always exit
C24_FourUsersExit ==
    (fPc = "draw" /\ fI <= fCount /\ fUsers >= 4)
        => \E followerIndex, followingIndex \in DrawnIndices(fUsers) :
              <<followerIndex, followingIndex>> \notin fUsed

(***************************************************************************)
(* C25: generateRelationalFollowers never produces a relationship in which *)
(* a user follows themselves: in every follower record followerId differs  *)
(* from followingId.                                                       *)
(***************************************************************************)
C25_NoSelfFollow ==
    \A r \in fFollowers : r[1] # r[2]

\* the first run inserted the generated data and lost nothing
FirstRunInserted == uWrites[1] > 0 /\ ~uLost[1]

(***************************************************************************)
(* C26: if a first runAllTests inserted the generated data without any     *)
(* failure, then a second runAllTests on the same tables, whose check      *)
(* requests the store answers, detects the data and sends no write         *)
(* request, for every userCount >= 1 and postCount >= 1.                   *)
(***************************************************************************)
C26_SecondRunWritesNothing ==
    (/\ uRun = 2
     /\ uUserCount >= 1 /\ uPostCount >= 1
     /\ FirstRunInserted
     /\ uChecks[2] = "answered")
        => (uPc # "generate" /\ uWrites[2] = 0)

(***************************************************************************)
(* C27: insertTestData inserts the missing data: after it completes with   *)
(* no failed batch and with exact table counts, the users table holds at   *)
(* least userCount distinct generated users and the orders table at least  *)
(* orderCount distinct generated orders, whatever subset of the generated  *)
(* items the tables held before.                                           *)
(***************************************************************************)
C27_InsertsTheMissing ==
    (nPc = "inserted" /\ nExact /\ ~nLost)
        => /\ Cardinality(nTables["users"]) >= nUserCount
           /\ Cardinality(nTables["orders"]) >= nOrderCount

(***************************************************************************)
(* C28: single-table getOrder(userId, orderId) returns only the order      *)
(* whose orderId is the requested one, never another order of that user    *)
(* whose id merely starts with the requested id, for every set of order    *)
(* ids the generator can produce.                                          *)
(***************************************************************************)
C28_GetOrderReturnsOnlyTheOrder ==
    oPc = "returned" => oReturned \subseteq {oAsked}

\* among ids of the same length the lookup is exact
C28_ExactBelowNineDigits ==
    (oPc = "returned" /\ \A c \in oStored : c < 100000000)
        => oReturned = {oAsked}

\* the store answered both reads of the user's orders
BothAnswered ==
    Answered(stCall, "getUserOrders") /\ Answered(gsiCall, "getUserOrdersWithGSI")

\* the ORDER items of the single table, of all users
AllStoredOrders ==
    {i \in db["single-table-orders"] : i.entityType = "ORDER"}

(***************************************************************************)
(* C29: for every user U and every table content, getUserOrders(U) and     *)
(* getUserOrdersWithGSI(U) return the same set of orders, also when the    *)
(* store returns only the first page of a query.                           *)
(***************************************************************************)
C29_SameOrdersEveryContent ==
    BothAnswered => Returned(stCall) = Returned(gsiCall)

(***************************************************************************)
(* C29, amended: both reads return only orders of U; they return the same  *)
(* set, all orders of U, when the ORDER items of all users fit in one      *)
(* response page; otherwise the index read returns the orders of U among   *)
(* one page of all users' orders and the reported record counts are the    *)
(* numbers of items returned.                                              *)
(***************************************************************************)
C29_SameOrdersWithinOnePage ==
    BothAnswered =>
        /\ Returned(stCall) \subseteq OrdersOf(stCall.arg)
        /\ Returned(gsiCall) \subseteq OrdersOf(stCall.arg)
        /\ Cardinality(AllStoredOrders) <= PageLimit =>
              /\ Returned(stCall) = OrdersOf(stCall.arg)
              /\ Returned(gsiCall) = OrdersOf(stCall.arg)
        /\ gsiCall.result.recordCount = Cardinality(Returned(gsiCall))
        /\ stCall.result.recordCount = Cardinality(Returned(stCall))

\* a table with the user item, orders of the user and an order of another
\* user, all within one page: both reads returned the user's orders
C29_Witness ==
    /\ BothAnswered
    /\ Cardinality(AllStoredOrders) <= PageLimit
    /\ AllStoredOrders # OrdersOf(stCall.arg)
    /\ SingleTableOrderUser(stCall.arg) \in db["single-table-orders"]
    /\ Cardinality(OrdersOf(stCall.arg)) = 2
    /\ Returned(gsiCall) = Returned(stCall)
    /\ Returned(gsiCall) = OrdersOf(stCall.arg)
====
